---- MODULE Spec2Model ----
(***************************************************************************)
(* dmap: open-addressing hash table with stable data indices               *)
(* (src/dmap.c, macros of src/dmap.h).  The map header is the record hdr,  *)
(* the caller's handle is d ("NULL" or "LIVE").  Every public operation is *)
(* one action; the pure helpers of dmap.c are operators of the same name.  *)
(***************************************************************************)
EXTENDS Integers, Sequences, FiniteSets, TLC

VARIABLES d, hdr, pc, op, reinsert, lastKeyOp, nops, dmap_error_handler, hook

vars == <<d, hdr, pc, op, reinsert, lastKeyOp, nops, dmap_error_handler, hook>>

(***************************************************************************)
(* Bounds of the model                                                     *)
(***************************************************************************)
\* number of operations explored after the initial workload
MaxOps == 5
\* the "fill" workload inserts the FillCount keys up to and including 26
FillCount == 15
\* the "churn" workload inserts and deletes the keys 1..ChurnSpan except 26
ChurnSpan == 32
\* number of operations explored by KeySpec after its initial maps
MaxKeyOps == 3
\* number of operations explored by HmapSpec after its initial maps
MaxHmapOps == 3
\* the hmap workload inserts the HFillCount keys 101, 102, ...
HFillCount == 62

(***************************************************************************)
(* Program constants                                                       *)
(***************************************************************************)
DMAP_INITIAL_CAPACITY == 16
\* the two multipliers are used by dmap.c but defined in no file of src/;
\* their values are the ones the specification states (load factor 0.5,
\* capacity doubles on growth)
DMAP_GROWTH_MULTIPLIER == 2
DMAP_HASHTABLE_MULTIPLIER == 2
\* sentinels of a DmapEntry_U32 data_idx, read as a signed int
\* (UINT32_MAX and UINT32_MAX - 1); DMAP_EMPTY is also the not-found result
DMAP_EMPTY == -1
DMAP_DELETED == -2
\* result of a probe loop that has visited hash_cap slots without returning:
\* with assert compiled out the loop never returns
NONTERM == -3
\* seed passed to dmap_generate_hash
HASH_SEED == 1333
\* key_size of a string-keyed map (UINT64_MAX, -1 as a signed value)
KEY_SIZE_STR == -1

(***************************************************************************)
(* 64-bit unsigned arithmetic on four 16-bit limbs, least significant      *)
(* first (the hash is a u64)                                               *)
(***************************************************************************)
Limb == 65536

U64 == [1..4 -> 0..(Limb - 1)]

U64Of(n) == <<n % Limb, (n \div Limb) % Limb, 0, 0>>

RECURSIVE XorBits(_, _, _)
XorBits(a, b, n) ==
    IF n = 0 THEN 0
    ELSE (((a % 2) + (b % 2)) % 2) + 2 * XorBits(a \div 2, b \div 2, n - 1)

\* hval ^= (u64)byte
U64XorByte(h, byte) ==
    <<(h[1] \div 256) * 256 + XorBits(h[1] % 256, byte, 8), h[2], h[3], h[4]>>

\* hval += (hval << 1) + (hval << 4) + (hval << 5) + (hval << 7)
\*       + (hval << 8) + (hval << 40), modulo 2^64
\* i.e. hval * (435 + 2^40)
U64FnvMul(h) ==
    LET t1 == h[1] * 435
        t2 == h[2] * 435 + (t1 \div Limb)
        t3 == h[3] * 435 + h[1] * 256 + (t2 \div Limb)
        t4 == h[4] * 435 + h[2] * 256 + (t3 \div Limb)
    IN  <<t1 % Limb, t2 % Limb, t3 % Limb, t4 % Limb>>

\* hash % m for m < 2^15
U64Mod(h, m) ==
    ((((((h[4] % m) * Limb + h[3]) % m) * Limb + h[2]) % m) * Limb + h[1]) % m

RECURSIVE dmap_fnv_64(_, _)
dmap_fnv_64(buf, hval) ==
    IF buf = <<>> THEN hval
    ELSE dmap_fnv_64(Tail(buf), U64FnvMul(U64XorByte(hval, Head(buf))))

dmap_generate_hash(key) == dmap_fnv_64(key, U64Of(HASH_SEED))

(***************************************************************************)
(* Keys and values offered by the caller                                   *)
(***************************************************************************)
\* the bytes of a 32-bit key in memory (little endian)
KeyBytes(n) ==
    <<n % 256, (n \div 256) % 256, (n \div 65536) % 256, (n \div 16777216) % 256>>

\* 26 and 90 hash to slot 31 of a 32-slot directory, 21 hashes to slot 0
KA == KeyBytes(26)
KB == KeyBytes(90)
KC == KeyBytes(21)
Keys == {KA, KB, KC}

\* an 8-byte key (the u64 26) and a string key ("apple"), offered next to
\* the 4-byte key 26 where key lengths are mixed
K8 == <<26, 0, 0, 0, 0, 0, 0, 0>>
KS == <<97, 112, 112, 108, 101>>
\* two 12-byte keys (a struct of three u32) with the same first four bytes
\* and the same dmap_generate_hash, 0x15d24fd4aed2ae0f
K12A == <<26, 0, 0, 0, 208, 189, 62, 196, 37, 132, 177, 91>>
K12B == <<26, 0, 0, 0, 209, 33, 30, 160, 180, 24, 82, 214>>
MixedKeys == {KA, K8, KS, K12A, K12B}

AllKeys == Keys \cup MixedKeys

Values == {1, 2}

\* content of a value cell that was never written
NoValue == 0

NoKey == <<>>

\* the hashes of the keys the operations use, computed once
HashOf == [k \in AllKeys |-> dmap_generate_hash(k)]

Hash(k) == IF k \in AllKeys THEN HashOf[k] ELSE dmap_generate_hash(k)

\* DMAP_STR: dmap_fnv_64(key, key_size, hash), the second hash of a string key
RehashOf == [k \in AllKeys |-> dmap_fnv_64(k, HashOf[k])]

Rehash(k, hash) ==
    IF k \in AllKeys /\ hash = HashOf[k] THEN RehashOf[k] ELSE dmap_fnv_64(k, hash)

(***************************************************************************)
(* Directory entries (DmapEntry_U32: hash, key, data_idx; DmapEntry_STR:   *)
(* hash, rehash, data_idx)                                                 *)
(***************************************************************************)
\* an entry of a directory fresh from memset(new_entries, 0xff, size)
FreshEntry ==
    [hash |-> <<Limb - 1, Limb - 1, Limb - 1, Limb - 1>>,
     key |-> <<255, 255, 255, 255>>,
     data_idx |-> DMAP_EMPTY]

\* the same for a DmapEntry_STR
FreshEntryStr ==
    [hash |-> <<Limb - 1, Limb - 1, Limb - 1, Limb - 1>>,
     rehash |-> <<Limb - 1, Limb - 1, Limb - 1, Limb - 1>>,
     data_idx |-> DMAP_EMPTY]

get_data_index(entries, idx) == entries[idx].data_idx

mark_index_empty(entries, i) ==
    [entries EXCEPT ![i].data_idx = DMAP_EMPTY]

\* variant: a deleted slot is marked EMPTY, not DELETED
mark_index_deleted_as_empty(entries, i) ==
    [entries EXCEPT ![i].data_idx = DMAP_EMPTY]

mark_index_deleted(entries, i) ==
    [entries EXCEPT ![i].data_idx = DMAP_DELETED]

\* variant: a DELETED slot counts as EMPTY (a lookup probe ends at it)
entry_is_empty_incl_deleted(entries, i) ==
    entries[i].data_idx = DMAP_EMPTY \/ entries[i].data_idx = DMAP_DELETED

entry_is_empty(entries, i) == entries[i].data_idx = DMAP_EMPTY

entry_is_deleted(entries, i) == entries[i].data_idx = DMAP_DELETED

entry_is_empty_or_deleted(entries, i) ==
    entries[i].data_idx = DMAP_EMPTY \/ entries[i].data_idx = DMAP_DELETED

\* DMAP_U32: hash, data index and the first sizeof(u32) bytes of the key;
\* DMAP_STR: hash, data index and the rehash of the key, no key bytes
store_entry_data(entries, entry_index, key, hash, data_index, key_type) ==
    [entries EXCEPT ![entry_index] =
        IF key_type = "DMAP_STR"
        THEN [hash |-> hash, rehash |-> Rehash(key, hash), data_idx |-> data_index]
        ELSE [hash |-> hash, key |-> SubSeq(key, 1, 4), data_idx |-> data_index]]

\* stored hash equal, then DMAP_U32: memcmp of sizeof(u32) key bytes,
\* DMAP_STR: the rehash of the probe key under the stored hash equals the
\* stored rehash
keys_match(entries, idx, hash, key, key_type) ==
    IF entries[idx].hash # hash THEN FALSE
    ELSE IF key_type = "DMAP_STR"
    THEN entries[idx].rehash = Rehash(key, entries[idx].hash)
    ELSE SubSeq(key, 1, 4) = entries[idx].key

\* the new key type (cap is far below UINT32_MAX - 2) and the new array
\* after the memset of dmap_grow_entries
allocate_entries(num_entries, key_type) ==
    IF key_type = "DMAP_STR"
    THEN [new_key_type |-> "DMAP_STR",
          entries |-> [i \in 0..(num_entries - 1) |-> FreshEntryStr]]
    ELSE [new_key_type |-> "DMAP_U32",
          entries |-> [i \in 0..(num_entries - 1) |-> FreshEntry]]

NextIdx(idx, hash_cap) == IF idx + 1 >= hash_cap THEN 0 ELSE idx + 1

RECURSIVE find_empty_slot_loop(_, _, _, _)
find_empty_slot_loop(entries, hash_cap, idx, j) ==
    IF j = 0 THEN NONTERM
    ELSE IF entry_is_empty_or_deleted(entries, idx) THEN idx
    ELSE find_empty_slot_loop(entries, hash_cap, NextIdx(idx, hash_cap), j - 1)

dmap_find_empty_slot(entries, hash, hash_cap) ==
    find_empty_slot_loop(entries, hash_cap, U64Mod(hash, hash_cap), hash_cap)

RECURSIVE find_slot_loop(_, _, _, _, _, _, _)
find_slot_loop(entries, key, hash, hash_cap, type, idx, j) ==
    IF j = 0 THEN NONTERM
    ELSE IF entry_is_empty_or_deleted(entries, idx) THEN idx
    ELSE IF keys_match(entries, idx, hash, key, type) THEN idx
    ELSE find_slot_loop(entries, key, hash, hash_cap, type, NextIdx(idx, hash_cap), j - 1)

\* variant: the insert probe never compares keys (takes the first EMPTY or
\* DELETED slot even when the key is stored further on)
dmap_find_slot_nomatch(entries, key, hash, hash_cap, type) ==
    find_empty_slot_loop(entries, hash_cap, U64Mod(hash, hash_cap), hash_cap)

dmap_find_slot(entries, key, hash, hash_cap, type) ==
    find_slot_loop(entries, key, hash, hash_cap, type, U64Mod(hash, hash_cap), hash_cap)

\* copies the old entry verbatim into the slot its hash finds in new_entries
set_new_index(new_entries, old_entries, idx, new_hash_cap) ==
    LET new_index == dmap_find_empty_slot(new_entries, old_entries[idx].hash, new_hash_cap)
    IN  [new_entries EXCEPT ![new_index] = old_entries[idx]]

\* variant of grow_entries_loop: only EMPTY slots are skipped, a DELETED entry
\* is rehashed like a live one
RECURSIVE grow_entries_loop_keep_deleted(_, _, _, _, _)
grow_entries_loop_keep_deleted(new_entries, old_entries, i, new_hash_cap, old_hash_cap) ==
    IF i >= old_hash_cap THEN new_entries
    ELSE IF entry_is_empty(old_entries, i)
         THEN grow_entries_loop_keep_deleted(new_entries, old_entries, i + 1,
                                             new_hash_cap, old_hash_cap)
         ELSE grow_entries_loop_keep_deleted(
                  set_new_index(new_entries, old_entries, i, new_hash_cap),
                  old_entries, i + 1, new_hash_cap, old_hash_cap)

\* the for loop of dmap_grow_entries: EMPTY and DELETED slots are skipped
RECURSIVE grow_entries_loop(_, _, _, _, _)
grow_entries_loop(new_entries, old_entries, i, new_hash_cap, old_hash_cap) ==
    IF i >= old_hash_cap THEN new_entries
    ELSE IF entry_is_empty_or_deleted(old_entries, i)
         THEN grow_entries_loop(new_entries, old_entries, i + 1, new_hash_cap, old_hash_cap)
         ELSE grow_entries_loop(set_new_index(new_entries, old_entries, i, new_hash_cap),
                                old_entries, i + 1, new_hash_cap, old_hash_cap)

\* h already holds the new cap and hash_cap; h.entries is the old directory
dmap_grow_entries(h, new_hash_cap, old_hash_cap) ==
    LET a == allocate_entries(new_hash_cap, h.key_type)
        new_entries == a.entries
    IN  [h EXCEPT !.entries =
            IF h.len # 0
            THEN grow_entries_loop(new_entries, h.entries, 0, new_hash_cap, old_hash_cap)
            ELSE new_entries,
         !.key_type = a.new_key_type]

(***************************************************************************)
(* Map header: growth, initialisation                                      *)
(***************************************************************************)
\* the header behind a NULL handle (no map): dmap_cap and dmap_count read 0
NullHdr ==
    [len |-> 0, cap |-> 0, hash_cap |-> 0, returned_idx |-> DMAP_EMPTY,
     key_size |-> 0, key_type |-> "DMAP_UNINITIALIZED",
     entries |-> <<>>, free_list |-> <<>>, data |-> <<>>]

\* realloc of the header and value block: existing cells keep their bytes
ReallocData(data, old_cap, new_cap) ==
    [i \in 0..(new_cap - 1) |-> IF i < old_cap THEN data[i] ELSE NoValue]

\* variant of dmap__grow_internal: the value array is doubled, the directory
\* keeps its size
dmap__grow_internal_cap_only(h) ==
    LET old_cap == h.cap
        new_cap == old_cap * DMAP_GROWTH_MULTIPLIER
        new_hash_cap == old_cap * DMAP_HASHTABLE_MULTIPLIER
        old_hash_cap == h.hash_cap
        new_hdr == [h EXCEPT !.cap = new_cap, !.hash_cap = new_hash_cap,
                             !.data = ReallocData(h.data, old_cap, new_cap)]
    IN  dmap_grow_entries(new_hdr, new_hash_cap, old_hash_cap)

\* new cap = old cap * DMAP_GROWTH_MULTIPLIER, new hash_cap = new cap *
\* DMAP_HASHTABLE_MULTIPLIER (the float products are exact), then the rehash
dmap__grow_internal(h) ==
    LET old_cap == h.cap
        new_cap == old_cap * DMAP_GROWTH_MULTIPLIER
        new_hash_cap == new_cap * DMAP_HASHTABLE_MULTIPLIER
        old_hash_cap == h.hash_cap
        new_hdr == [h EXCEPT !.cap = new_cap, !.hash_cap = new_hash_cap,
                             !.data = ReallocData(h.data, old_cap, new_cap)]
    IN  dmap_grow_entries(new_hdr, new_hash_cap, old_hash_cap)

MAX(x, y) == IF x >= y THEN x ELSE y

\* variant of init_already_initialized: the test is left out
init_already_initialized_never(dd) == FALSE

\* dmap__init_internal, its first test: if(dmap) the handle already refers
\* to a map and the error handler is called
init_already_initialized(dd) == dd # "NULL"

dmap__init_internal(initial_capacity, is_string) ==
    LET ic == MAX(DMAP_INITIAL_CAPACITY, initial_capacity)
        new_hdr == [len |-> 0, cap |-> ic,
                    hash_cap |-> ic * DMAP_HASHTABLE_MULTIPLIER,
                    returned_idx |-> DMAP_EMPTY, key_size |-> 0,
                    key_type |-> IF is_string THEN "DMAP_STR"
                                 ELSE "DMAP_UNINITIALIZED",
                    entries |-> <<>>, free_list |-> <<>>,
                    data |-> [i \in 0..(ic - 1) |-> NoValue]]
    IN  dmap_grow_entries(new_hdr, new_hdr.hash_cap, 0)

dmap__kstr_init(initial_capacity) == dmap__init_internal(initial_capacity, TRUE)

dmap__init(initial_capacity) == dmap__init_internal(initial_capacity, FALSE)

\* dmap__kstr_grow: a NULL handle gets a string-keyed map of default capacity
dmap__kstr_grow(dd, h) ==
    IF dd = "NULL" THEN dmap__kstr_init(0) ELSE dmap__grow_internal(h)

\* dmap__grow: a NULL handle gets a map of default capacity
dmap__grow(dd, h) ==
    IF dd = "NULL" THEN dmap__init(0) ELSE dmap__grow_internal(h)

dmap_cap(dd, h) == IF dd = "NULL" THEN 0 ELSE h.cap

dmap_count(dd, h) == IF dd = "NULL" THEN 0 ELSE h.len

\* variant: a live map is grown only when n exceeds cap by more than one
dmap__fit_late(dd, h, n) ==
    IF dd # "NULL" /\ n <= dmap_cap(dd, h) + 1 THEN h ELSE dmap__grow(dd, h)

\* variant: a live map is never grown
dmap__fit_never(dd, h, n) == IF dd # "NULL" THEN h ELSE dmap__grow(dd, h)

\* dmap__fit(d, n): grow (once) unless n <= dmap_cap(d)
dmap__fit(dd, h, n) == IF n <= dmap_cap(dd, h) THEN h ELSE dmap__grow(dd, h)

dmap__kstr_fit(dd, h, n) ==
    IF n <= dmap_cap(dd, h) THEN h ELSE dmap__kstr_grow(dd, h)

(***************************************************************************)
(* Operations on the header                                                *)
(***************************************************************************)
darr_len(a) == Len(a)

\* variant: pop takes the first element (a queue instead of a stack)
darr_pop_first(a) == [val |-> a[1], arr |-> Tail(a)]

\* variant: pop reads the last element and leaves it in the array
darr_pop_keep(a) == [val |-> a[Len(a)], arr |-> a]

\* darr_pop(a): a[len-- - 1], the last element, which leaves the array
darr_pop(a) == [val |-> a[Len(a)], arr |-> SubSeq(a, 1, Len(a) - 1)]

\* variant: push puts the element in front
darr_push_front(a, v) == <<v>> \o a

\* darr_push(a, v)
darr_push(a, v) == Append(a, v)

\* variant of fresh_data_slot: the index is always len, the free list is
\* never popped
fresh_data_slot_never_recycles(free_list, len) ==
    [idx |-> len, free_list |-> free_list]

\* variant: len is read after it was incremented
fresh_data_slot_late(free_list, len) ==
    IF darr_len(free_list) # 0
    THEN [idx |-> darr_pop(free_list).val, free_list |-> darr_pop(free_list).arr]
    ELSE [idx |-> len + 1, free_list |-> free_list]

\* "get a fresh data slot": darr_len(free_list) ? darr_pop(free_list) : len
fresh_data_slot(free_list, len) ==
    IF darr_len(free_list) # 0
    THEN [idx |-> darr_pop(free_list).val, free_list |-> darr_pop(free_list).arr]
    ELSE [idx |-> len, free_list |-> free_list]

\* a call of dmap_error_handler(msg) comes back to its caller: the default
\* handler calls exit(1), a handler installed with dmap_set_error_handler
\* returns.  The operators that call the handler take the value of the
\* global dmap_error_handler as their argument handler.
HandlerReturns(handler) == handler = "custom"

\* variant: only a key shorter than key_size is an error
insert_key_size_error_shorter(h, key_size) ==
    h.key_size # 0 /\ key_size < h.key_size /\ h.key_size # KEY_SIZE_STR

\* the key-size check of dmap__insert_entry: key_size is set, differs from
\* the length of the key and is not that of a string-keyed map
insert_key_size_error(h, key_size) ==
    h.key_size # 0 /\ h.key_size # key_size /\ h.key_size # KEY_SIZE_STR

\* dmap__insert_entry: the result is the new header, the slot written
\* (NONTERM when dmap_find_slot never returns; the header is then the one
\* left behind by the statements before the probe), whether the error handler
\* was called and whether the process has exited in it.  After init key_type
\* is DMAP_U32 or DMAP_STR, never DMAP_UNINITIALIZED.
dmap__insert_entry(h, key, key_size, handler) ==
    LET err == insert_key_size_error(h, key_size)
        h1 == IF h.key_size = 0
              THEN [h EXCEPT !.key_size = IF h.key_type = "DMAP_STR"
                                          THEN KEY_SIZE_STR ELSE key_size]
              ELSE h
        slot == fresh_data_slot(h1.free_list, h1.len)
        ret == slot.idx
        h2 == [h1 EXCEPT !.returned_idx = ret, !.free_list = slot.free_list,
                         !.len = h1.len + 1]
        hash == Hash(SubSeq(key, 1, key_size))
        entry_index == dmap_find_slot(h2.entries, key, hash, h2.hash_cap, h2.key_type)
    IN  IF err /\ ~HandlerReturns(handler)
        THEN [hdr |-> h1, slot |-> DMAP_EMPTY, err |-> TRUE, exited |-> TRUE]
        ELSE IF entry_index = NONTERM
        THEN [hdr |-> h2, slot |-> NONTERM, err |-> err, exited |-> FALSE]
        ELSE [hdr |-> [h2 EXCEPT !.entries =
                          store_entry_data(h2.entries, entry_index, key, hash, ret,
                                           h2.key_type)],
              slot |-> entry_index, err |-> err, exited |-> FALSE]

\* the tail of the insert macros: the value cell d[returned_idx] is written
\* and returned_idx is the result
insert_value(r, val) ==
    LET idx == r.hdr.returned_idx
    IN  IF r.exited
        THEN [hdr |-> r.hdr, ret |-> DMAP_EMPTY, pc |-> "exited", err |-> r.err]
        ELSE IF r.slot = NONTERM
        THEN [hdr |-> r.hdr, ret |-> NONTERM, pc |-> "hung", err |-> r.err]
        ELSE IF idx \in DOMAIN r.hdr.data
        THEN [hdr |-> [r.hdr EXCEPT !.data[idx] = val], ret |-> idx, pc |-> "ready",
              err |-> r.err]
        ELSE [hdr |-> r.hdr, ret |-> idx, pc |-> "oob", err |-> r.err]

\* the macro dmap_insert(d, k, v): fit, insert the entry under sizeof(*(k))
\* key bytes, write the value cell, yield returned_idx
dmap_insert(dd, h, key, val, handler) ==
    LET h1 == dmap__fit(dd, h, dmap_count(dd, h) + 1)
    IN  insert_value(dmap__insert_entry(h1, key, Len(key), handler), val)

\* the macro dmap_kstr_insert(d, k, key_size, v)
dmap_kstr_insert(dd, h, key, key_size, val, handler) ==
    LET h1 == dmap__kstr_fit(dd, h, dmap_count(dd, h) + 1)
    IN  insert_value(dmap__insert_entry(h1, key, key_size, handler), val)

RECURSIVE get_entry_index_loop(_, _, _, _, _, _, _)
get_entry_index_loop(entries, key, hash, hash_cap, type, idx, j) ==
    IF j = 0 THEN NONTERM
    ELSE IF entry_is_empty(entries, idx) THEN DMAP_EMPTY
    ELSE IF ~entry_is_deleted(entries, idx) /\ keys_match(entries, idx, hash, key, type)
    THEN idx
    ELSE get_entry_index_loop(entries, key, hash, hash_cap, type,
                              NextIdx(idx, hash_cap), j - 1)

\* dmap__get_entry_index with the key as the caller passes it: key is the
\* memory at the key address, of which key_size bytes are hashed, while
\* keys_match reads what its key type tells it to
dmap__get_entry_index_ptr(dd, h, key, key_size) ==
    IF dmap_cap(dd, h) = 0 THEN DMAP_EMPTY
    ELSE get_entry_index_loop(h.entries, key, Hash(SubSeq(key, 1, key_size)),
                              h.hash_cap, h.key_type,
                              U64Mod(Hash(SubSeq(key, 1, key_size)), h.hash_cap),
                              h.hash_cap)

\* the same for a key object of at least four bytes, or a string key: the
\* bytes at the key address are the key
dmap__get_entry_index(dd, h, key) ==
    IF dmap_cap(dd, h) = 0 THEN DMAP_EMPTY
    ELSE get_entry_index_loop(h.entries, key, Hash(key), h.hash_cap, h.key_type,
                              U64Mod(Hash(key), h.hash_cap), h.hash_cap)

\* dmap__get_idx: data index of key, DMAP_EMPTY when absent
dmap__get_idx(dd, h, key) ==
    LET idx == dmap__get_entry_index(dd, h, key)
    IN  IF idx = DMAP_EMPTY \/ idx = NONTERM THEN idx
        ELSE get_data_index(h.entries, idx)

\* the macro dmap_get(d, k)
dmap_get(dd, h, key) == IF dd = "NULL" THEN DMAP_EMPTY ELSE dmap__get_idx(dd, h, key)

\* variant: a found key does not set returned_idx
dmap__find_data_idx_noret(dd, h, key, handler) ==
    LET idx == dmap__get_entry_index(dd, h, key)
        err == h.key_size # KEY_SIZE_STR /\ h.key_size # Len(key)
    IN  IF dd = "NULL" THEN [found |-> FALSE, hdr |-> h, pc |-> "ready", err |-> FALSE]
        ELSE IF err /\ ~HandlerReturns(handler)
        THEN [found |-> FALSE, hdr |-> h, pc |-> "exited", err |-> TRUE]
        ELSE IF idx = NONTERM THEN [found |-> FALSE, hdr |-> h, pc |-> "hung", err |-> err]
        ELSE IF idx = DMAP_EMPTY
        THEN [found |-> FALSE, hdr |-> h, pc |-> "ready", err |-> err]
        ELSE [found |-> TRUE, hdr |-> h, pc |-> "ready", err |-> err]

\* dmap__find_data_idx: found flag, the header with returned_idx set, and
\* whether the error handler was called (key_size differs from the key
\* length and is not that of a string-keyed map)
dmap__find_data_idx(dd, h, key, handler) ==
    LET idx == dmap__get_entry_index(dd, h, key)
        err == h.key_size # KEY_SIZE_STR /\ h.key_size # Len(key)
    IN  IF dd = "NULL" THEN [found |-> FALSE, hdr |-> h, pc |-> "ready", err |-> FALSE]
        ELSE IF err /\ ~HandlerReturns(handler)
        THEN [found |-> FALSE, hdr |-> h, pc |-> "exited", err |-> TRUE]
        ELSE IF idx = NONTERM THEN [found |-> FALSE, hdr |-> h, pc |-> "hung", err |-> err]
        ELSE IF idx = DMAP_EMPTY
        THEN [found |-> FALSE, hdr |-> h, pc |-> "ready", err |-> err]
        ELSE [found |-> TRUE,
              hdr |-> [h EXCEPT !.returned_idx = get_data_index(h.entries, idx)],
              pc |-> "ready", err |-> err]

\* variant: delete also resets the value cell of the deleted key
dmap__delete_zeroing(dd, h, key) ==
    LET idx == dmap__get_entry_index(dd, h, key)
        data_index == get_data_index(h.entries, idx)
    IN  IF idx = NONTERM THEN [hdr |-> h, ret |-> NONTERM, pc |-> "hung"]
        ELSE IF idx = DMAP_EMPTY THEN [hdr |-> h, ret |-> DMAP_EMPTY, pc |-> "ready"]
        ELSE [hdr |-> [h EXCEPT !.entries = mark_index_deleted(h.entries, idx),
                                !.free_list = darr_push(h.free_list, data_index),
                                !.len = h.len - 1,
                                !.data[data_index] = NoValue],
              ret |-> data_index, pc |-> "ready"]

\* variant: delete leaves len as it is
dmap__delete_keeps_len(dd, h, key) ==
    LET idx == dmap__get_entry_index(dd, h, key)
        data_index == get_data_index(h.entries, idx)
    IN  IF idx = NONTERM THEN [hdr |-> h, ret |-> NONTERM, pc |-> "hung"]
        ELSE IF idx = DMAP_EMPTY THEN [hdr |-> h, ret |-> DMAP_EMPTY, pc |-> "ready"]
        ELSE [hdr |-> [h EXCEPT !.entries = mark_index_deleted(h.entries, idx),
                                !.free_list = darr_push(h.free_list, data_index)],
              ret |-> data_index, pc |-> "ready"]

\* dmap__delete: tombstone the slot, push its data index, decrement len
dmap__delete(dd, h, key) ==
    LET idx == dmap__get_entry_index(dd, h, key)
        data_index == get_data_index(h.entries, idx)
    IN  IF idx = NONTERM THEN [hdr |-> h, ret |-> NONTERM, pc |-> "hung"]
        ELSE IF idx = DMAP_EMPTY THEN [hdr |-> h, ret |-> DMAP_EMPTY, pc |-> "ready"]
        ELSE [hdr |-> [h EXCEPT !.entries = mark_index_deleted(h.entries, idx),
                                !.free_list = darr_push(h.free_list, data_index),
                                !.len = h.len - 1],
              ret |-> data_index, pc |-> "ready"]

\* the macro dmap_delete(d, k)
dmap_delete(dd, h, key) ==
    IF dd = "NULL" THEN [hdr |-> h, ret |-> DMAP_EMPTY, pc |-> "ready"]
    ELSE dmap__delete(dd, h, key)

RECURSIVE clear_loop(_, _, _)
clear_loop(entries, i, hash_cap) ==
    IF i >= hash_cap THEN entries
    ELSE clear_loop(mark_index_empty(entries, i), i + 1, hash_cap)

\* variant: the free list survives the clear
dmap_clear_keeps_free_list(h) ==
    [h EXCEPT !.entries = clear_loop(h.entries, 0, h.hash_cap),
              !.len = 0]

dmap_clear(h) ==
    [h EXCEPT !.entries = clear_loop(h.entries, 0, h.hash_cap),
              !.free_list = <<>>,
              !.len = 0]

\* len of the data array including freed cells
dmap_range(dd, h) == IF dd = "NULL" THEN 0 ELSE h.len + darr_len(h.free_list)

\* variant: the result is 1 for a NULL handle too
dmap_free_always(dd) == [d |-> "NULL", ret |-> 1]

\* the macro dmap_free(d): a live map is released, the handle set to NULL and
\* the result is 1; a NULL handle stays NULL and the result is 0
dmap_free(dd) ==
    IF dd # "NULL" THEN [d |-> "NULL", ret |-> 1] ELSE [d |-> dd, ret |-> 0]

(***************************************************************************)
(* Initial states: the handle before any call, and the maps two caller     *)
(* loops leave behind.  Both loops are computed with the operators of the  *)
(* actions, so every initial state is a state of the program.              *)
(***************************************************************************)
\* for (i = from; i <= n; i++) dmap_insert(d, &i, 1);
\* (len is never negative: reading it evaluates h before the next iteration)
RECURSIVE FillRun(_, _, _, _)
FillRun(dd, h, i, n) ==
    IF i > n \/ h.len < 0 THEN h
    ELSE FillRun("LIVE", dmap_insert(dd, h, KeyBytes(i), 1, "default").hdr, i + 1, n)

\* for (i = from; i <= n; i++) if (i != 26) { dmap_insert(d, &i, 1); dmap_delete(d, &i); }
RECURSIVE ChurnRun(_, _, _, _)
ChurnRun(dd, h, i, n) ==
    IF i > n \/ h.len < 0 THEN h
    ELSE IF KeyBytes(i) = KA THEN ChurnRun(dd, h, i + 1, n)
    ELSE ChurnRun("LIVE",
                  dmap_delete("LIVE", dmap_insert(dd, h, KeyBytes(i), 1, "default").hdr,
                              KeyBytes(i)).hdr,
                  i + 1, n)

FilledHdr == FillRun("NULL", NullHdr, 27 - FillCount, 26)

\* the last operation of each workload on the keys the actions use
FilledKeyOp ==
    [k \in AllKeys |-> IF \E i \in (27 - FillCount)..26 : k = KeyBytes(i)
                       THEN "insert" ELSE "none"]

ChurnedKeyOp ==
    [k \in AllKeys |-> IF k # KA /\ \E i \in 1..ChurnSpan : k = KeyBytes(i)
                       THEN "delete" ELSE "none"]

ChurnedHdr == ChurnRun("NULL", NullHdr, 1, ChurnSpan)

NoKeyOp == [k \in AllKeys |-> "none"]

\* reinsert follows the pattern insert(K); delete(K); insert(K) over
\* consecutive operations: stage 1 after insert(K) (idx is the index it
\* returned), stage 2 after the delete(K) that follows it, stage 3 after the
\* insert(K) that follows that (idx is still the index of the first insert)
NoReinsert == [stage |-> 0, key |-> NoKey, idx |-> DMAP_EMPTY]

AfterInsert(k, ret) ==
    IF reinsert.stage = 2 /\ reinsert.key = k
    THEN [stage |-> 3, key |-> k, idx |-> reinsert.idx]
    ELSE [stage |-> 1, key |-> k, idx |-> ret]

AfterDelete(k) ==
    IF reinsert.stage = 1 /\ reinsert.key = k
    THEN [stage |-> 2, key |-> k, idx |-> reinsert.idx]
    ELSE IF reinsert.stage = 3 /\ reinsert.key = k
    THEN [stage |-> 2, key |-> k, idx |-> op.ret]
    ELSE NoReinsert

NoOp == [name |-> "none", key |-> NoKey, val |-> NoValue, ret |-> DMAP_EMPTY]

Init ==
    /\ dmap_error_handler = "default"
    /\ hook = FALSE
    /\ \/ d = "NULL" /\ hdr = NullHdr /\ lastKeyOp = NoKeyOp
       \/ d = "LIVE" /\ hdr = FilledHdr /\ lastKeyOp = FilledKeyOp
       \/ d = "LIVE" /\ hdr = ChurnedHdr /\ lastKeyOp = ChurnedKeyOp
    /\ pc = "ready"
    /\ op = NoOp
    /\ reinsert = NoReinsert
    /\ nops = 0

(***************************************************************************)
(* Actions: one per public operation                                       *)
(***************************************************************************)
CanStep == pc = "ready" /\ nops < MaxOps

\* dmap_set_error_handler(handler): a NULL argument restores the default
SetErrorHandler(handler) ==
    /\ CanStep
    /\ dmap_error_handler' = IF handler # "NULL" THEN handler ELSE "default"
    /\ op' = [name |-> "set_error_handler", key |-> NoKey, val |-> NoValue,
              ret |-> DMAP_EMPTY]
    /\ hook' = FALSE
    /\ reinsert' = NoReinsert
    /\ nops' = nops + 1
    /\ UNCHANGED <<d, hdr, pc, lastKeyOp>>

\* dmap_init(d, opts): dmap__init_internal calls the error handler for a
\* handle that already refers to a map; when the handler returns, the call
\* goes on and the handle gets a new empty map
DmapInitCapacity(initial_capacity) ==
    /\ CanStep
    /\ LET err == init_already_initialized(d)
           exited == err /\ ~HandlerReturns(dmap_error_handler)
       IN  /\ hook' = err
           /\ pc' = IF exited THEN "exited" ELSE pc
           /\ d' = IF exited THEN d ELSE "LIVE"
           /\ hdr' = IF exited THEN hdr ELSE dmap__init(initial_capacity)
           /\ lastKeyOp' = IF exited THEN lastKeyOp ELSE NoKeyOp
    /\ op' = [name |-> "init", key |-> NoKey, val |-> NoValue, ret |-> DMAP_EMPTY]
    /\ reinsert' = NoReinsert
    /\ nops' = nops + 1
    /\ UNCHANGED dmap_error_handler

\* the call with the default capacity (an initial capacity of 0)
DmapInit == DmapInitCapacity(0)

\* dmap_kstr_init(d, opts)
KstrInit ==
    /\ CanStep
    /\ LET err == init_already_initialized(d)
           exited == err /\ ~HandlerReturns(dmap_error_handler)
       IN  /\ hook' = err
           /\ pc' = IF exited THEN "exited" ELSE pc
           /\ d' = IF exited THEN d ELSE "LIVE"
           /\ hdr' = IF exited THEN hdr ELSE dmap__kstr_init(0)
           /\ lastKeyOp' = IF exited THEN lastKeyOp ELSE NoKeyOp
    /\ op' = [name |-> "kstr_init", key |-> NoKey, val |-> NoValue, ret |-> DMAP_EMPTY]
    /\ reinsert' = NoReinsert
    /\ nops' = nops + 1
    /\ UNCHANGED dmap_error_handler

\* dmap_insert(d, &k, v)
Insert(k, v) ==
    /\ CanStep
    /\ LET r == dmap_insert(d, hdr, k, v, dmap_error_handler)
       IN  /\ hdr' = r.hdr
           /\ pc' = r.pc
           /\ hook' = r.err
           /\ op' = [name |-> "insert", key |-> k, val |-> v, ret |-> r.ret]
           /\ reinsert' = AfterInsert(k, r.ret)
           /\ d' = IF r.pc = "exited" THEN d ELSE "LIVE"
           /\ lastKeyOp' = IF r.pc = "exited" THEN lastKeyOp
                           ELSE [lastKeyOp EXCEPT ![k] = "insert"]
    /\ nops' = nops + 1
    /\ UNCHANGED dmap_error_handler

\* dmap_kstr_insert(d, k, key_size, v)
KstrInsert(k, v) ==
    /\ CanStep
    /\ LET r == dmap_kstr_insert(d, hdr, k, Len(k), v, dmap_error_handler)
       IN  /\ hdr' = r.hdr
           /\ pc' = r.pc
           /\ hook' = r.err
           /\ op' = [name |-> "insert", key |-> k, val |-> v, ret |-> r.ret]
           /\ reinsert' = AfterInsert(k, r.ret)
           /\ d' = IF r.pc = "exited" THEN d ELSE "LIVE"
           /\ lastKeyOp' = IF r.pc = "exited" THEN lastKeyOp
                           ELSE [lastKeyOp EXCEPT ![k] = "insert"]
    /\ nops' = nops + 1
    /\ UNCHANGED dmap_error_handler

\* dmap_get(d, &k)
Get(k) ==
    /\ CanStep
    /\ LET r == dmap_get(d, hdr, k)
       IN  /\ pc' = IF r = NONTERM THEN "hung" ELSE "ready"
           /\ op' = [name |-> "get", key |-> k, val |-> NoValue, ret |-> r]
    /\ hook' = FALSE
    /\ nops' = nops + 1
    /\ reinsert' = NoReinsert
    /\ UNCHANGED <<d, hdr, lastKeyOp, dmap_error_handler>>

\* dmap_getp(d, &k): dmap__find_data_idx, then the address of d[returned_idx];
\* ret is the index of the cell pointed to, DMAP_EMPTY for NULL
Getp(k) ==
    /\ CanStep
    /\ LET r == dmap__find_data_idx(d, hdr, k, dmap_error_handler)
       IN  /\ hdr' = r.hdr
           /\ pc' = r.pc
           /\ hook' = r.err
           /\ op' = [name |-> "getp", key |-> k, val |-> NoValue,
                     ret |-> IF r.found THEN r.hdr.returned_idx ELSE DMAP_EMPTY]
    /\ nops' = nops + 1
    /\ reinsert' = NoReinsert
    /\ UNCHANGED <<d, lastKeyOp, dmap_error_handler>>

\* dmap_delete(d, &k)
Delete(k) ==
    /\ CanStep
    /\ LET r == dmap_delete(d, hdr, k)
       IN  /\ hdr' = r.hdr
           /\ pc' = r.pc
           /\ op' = [name |-> "delete", key |-> k, val |-> NoValue, ret |-> r.ret]
           /\ lastKeyOp' = IF r.ret >= 0 THEN [lastKeyOp EXCEPT ![k] = "delete"]
                           ELSE lastKeyOp
    /\ hook' = FALSE
    /\ reinsert' = AfterDelete(k)
    /\ nops' = nops + 1
    /\ UNCHANGED <<d, dmap_error_handler>>

\* dmap_clear(d) on a live map
Clear ==
    /\ CanStep
    /\ d = "LIVE"
    /\ hdr' = dmap_clear(hdr)
    /\ op' = [name |-> "clear", key |-> NoKey, val |-> NoValue, ret |-> DMAP_EMPTY]
    /\ hook' = FALSE
    /\ reinsert' = NoReinsert
    /\ lastKeyOp' = NoKeyOp
    /\ nops' = nops + 1
    /\ UNCHANGED <<d, pc, dmap_error_handler>>

\* dmap_free(d): releases a live map and sets the handle to NULL
Free ==
    /\ CanStep
    /\ d' = dmap_free(d).d
    /\ hdr' = NullHdr
    /\ op' = [name |-> "free", key |-> NoKey, val |-> NoValue, ret |-> dmap_free(d).ret]
    /\ hook' = FALSE
    /\ reinsert' = NoReinsert
    /\ lastKeyOp' = NoKeyOp
    /\ nops' = nops + 1
    /\ UNCHANGED <<pc, dmap_error_handler>>

Next ==
    \/ DmapInit
    \/ \E k \in Keys, v \in Values : Insert(k, v)
    \/ \E k \in Keys : Get(k)
    \/ \E k \in Keys : Getp(k)
    \/ \E k \in Keys : Delete(k)
    \/ Clear
    \/ Free

Spec == Init /\ [][Next]_vars

(***************************************************************************)
(* Keys of mixed lengths and the error handler: the handle before any call *)
(* and the maps left by one insert of a 4-byte key, of an 8-byte key, of a *)
(* 12-byte key and of a string key, under the default handler or an        *)
(* installed one.                                                          *)
(***************************************************************************)
\* int *d = NULL; int k = 26; dmap_insert(d, &k, 1);
IntMap4 == dmap_insert("NULL", NullHdr, KA, 1, "default").hdr

\* int *d = NULL; u64 k = 26; dmap_insert(d, &k, 1);
IntMap8 == dmap_insert("NULL", NullHdr, K8, 1, "default").hdr

\* int *d = NULL; struct { u32 a, b, c; } k = ...; dmap_insert(d, &k, 1);
IntMap12 == dmap_insert("NULL", NullHdr, K12A, 1, "default").hdr

\* int *d = NULL; dmap_kstr_insert(d, "apple", 5, 1);
StrMap == dmap_kstr_insert("NULL", NullHdr, KS, Len(KS), 1, "default").hdr

KeyInit ==
    /\ dmap_error_handler \in {"default", "custom"}
    /\ hook = FALSE
    /\ \/ d = "NULL" /\ hdr = NullHdr /\ lastKeyOp = NoKeyOp
       \/ d = "LIVE" /\ hdr = IntMap4 /\ lastKeyOp = [NoKeyOp EXCEPT ![KA] = "insert"]
       \/ d = "LIVE" /\ hdr = IntMap8 /\ lastKeyOp = [NoKeyOp EXCEPT ![K8] = "insert"]
       \/ d = "LIVE" /\ hdr = IntMap12 /\ lastKeyOp = [NoKeyOp EXCEPT ![K12A] = "insert"]
       \/ d = "LIVE" /\ hdr = StrMap /\ lastKeyOp = [NoKeyOp EXCEPT ![KS] = "insert"]
    /\ pc = "ready"
    /\ op = NoOp
    /\ reinsert = NoReinsert
    /\ nops = 0

KeyCanStep == nops < MaxKeyOps

KeySetErrorHandler(handler) == KeyCanStep /\ SetErrorHandler(handler)

KeyDmapInit == KeyCanStep /\ DmapInit

\* initial capacities above the default that a caller asks for
InitCapacities == {20}

KeyDmapInitCapacity(initial_capacity) ==
    KeyCanStep /\ DmapInitCapacity(initial_capacity)

KeyKstrInit == KeyCanStep /\ KstrInit

KeyInsert(k, v) == KeyCanStep /\ Insert(k, v)

KeyKstrInsert(k, v) == KeyCanStep /\ KstrInsert(k, v)

KeyGet(k) == KeyCanStep /\ Get(k)

KeyGetp(k) == KeyCanStep /\ Getp(k)

KeyDelete(k) == KeyCanStep /\ Delete(k)

KeyNext ==
    \/ \E handler \in {"custom", "NULL"} : KeySetErrorHandler(handler)
    \/ KeyDmapInit
    \/ \E c \in InitCapacities : KeyDmapInitCapacity(c)
    \/ KeyKstrInit
    \/ \E k \in MixedKeys : KeyInsert(k, 1)
    \/ \E k \in MixedKeys : KeyKstrInsert(k, 1)
    \/ \E k \in MixedKeys : KeyGet(k)
    \/ \E k \in MixedKeys : KeyGetp(k)
    \/ \E k \in MixedKeys : KeyDelete(k)

KeySpec == KeyInit /\ [][KeyNext]_vars

(***************************************************************************)
(* Keys of one and two bytes (u8, u16).  dmap_insert and dmap_get pass the *)
(* address of the key and the size of the key object; store_entry_data and *)
(* keys_match read sizeof u32 bytes at that address, so the memory that    *)
(* follows the key object is an input of both calls.                       *)
(***************************************************************************)
MaxSmallOps == 3

\* the four bytes at the key address and the size of the key object: the
\* u8 keys 7 and 9 and the u16 key 7, each with two contents of the memory
\* behind it
SmallKeyArgs ==
    {[mem |-> <<7, 0, 0, 0>>, key_size |-> 1],
     [mem |-> <<7, 170, 0, 0>>, key_size |-> 1],
     [mem |-> <<9, 0, 0, 0>>, key_size |-> 1],
     [mem |-> <<9, 0, 0, 170>>, key_size |-> 1],
     [mem |-> <<7, 0, 0, 0>>, key_size |-> 2],
     [mem |-> <<7, 0, 170, 0>>, key_size |-> 2]}

\* int *d = NULL;
SmallInit ==
    /\ dmap_error_handler = "default"
    /\ hook = FALSE
    /\ d = "NULL"
    /\ hdr = NullHdr
    /\ lastKeyOp = NoKeyOp
    /\ pc = "ready"
    /\ op = NoOp
    /\ reinsert = NoReinsert
    /\ nops = 0

\* dmap_insert(d, &k, v) with a key of one or two bytes: op.key is the key,
\* op.mem the bytes the call can read at its address
SmallInsert(a, v) ==
    /\ pc = "ready"
    /\ nops < MaxSmallOps
    /\ LET h1 == dmap__fit(d, hdr, dmap_count(d, hdr) + 1)
           r == insert_value(dmap__insert_entry(h1, a.mem, a.key_size,
                                                dmap_error_handler), v)
       IN  /\ hdr' = r.hdr
           /\ pc' = r.pc
           /\ hook' = r.err
           /\ op' = [name |-> "insert", key |-> SubSeq(a.mem, 1, a.key_size),
                     val |-> v, ret |-> r.ret, mem |-> a.mem]
           /\ d' = IF r.pc = "exited" THEN d ELSE "LIVE"
    /\ reinsert' = NoReinsert
    /\ nops' = nops + 1
    /\ UNCHANGED <<lastKeyOp, dmap_error_handler>>

\* dmap_get(d, &k) with a key of one or two bytes
SmallGet(a) ==
    /\ pc = "ready"
    /\ nops < MaxSmallOps
    /\ LET idx == dmap__get_entry_index_ptr(d, hdr, a.mem, a.key_size)
           r == IF d = "NULL" \/ idx = DMAP_EMPTY \/ idx = NONTERM THEN
                    (IF d = "NULL" THEN DMAP_EMPTY ELSE idx)
                ELSE get_data_index(hdr.entries, idx)
       IN  /\ pc' = IF r = NONTERM THEN "hung" ELSE "ready"
           /\ op' = [name |-> "get", key |-> SubSeq(a.mem, 1, a.key_size),
                     val |-> NoValue, ret |-> r, mem |-> a.mem]
    /\ hook' = FALSE
    /\ nops' = nops + 1
    /\ reinsert' = NoReinsert
    /\ UNCHANGED <<d, hdr, lastKeyOp, dmap_error_handler>>

SmallNext ==
    \/ \E a \in SmallKeyArgs : SmallInsert(a, 1)
    \/ \E a \in SmallKeyArgs : SmallGet(a)

SmallSpec == SmallInit /\ [][SmallNext]_vars

(***************************************************************************)
(* hmap (src/hmap.c, src/hmap.h): the older sibling of dmap.  Its hash is   *)
(* MurmurHash3_x64_128; a directory entry holds the two u64 of the hash and *)
(* a data index, no key bytes.                                              *)
(***************************************************************************)
\* F(v) with v evaluated once, as C evaluates the result of a call once
\* before the statements that use it
Once(v, F(_)) == CHOOSE r \in {F(x) : x \in {v}} : TRUE

\* a ^ b
U64Xor(a, b) ==
    <<XorBits(a[1], b[1], 16), XorBits(a[2], b[2], 16),
      XorBits(a[3], b[3], 16), XorBits(a[4], b[4], 16)>>

\* h >> r: limb i of the result takes the high bits of limb i + r / 16 and
\* the low r % 16 bits of the limb above it
U64Shr(h, r) ==
    LET q == r \div 16
        s == r % 16
        limb(i) == IF i <= 4 THEN h[i] ELSE 0
        out(i) == (limb(i + q) \div (2 ^ s)) + (limb(i + q + 1) % (2 ^ s)) * (2 ^ (16 - s))
    IN  <<out(1), out(2), out(3), out(4)>>

\* rotl64: (x << r) | (x >> (64 - r)), the limbs taken cyclically
ROTL64(x, r) ==
    LET q == (64 - r) \div 16
        s == (64 - r) % 16
        limb(i) == x[((i - 1) % 4) + 1]
        out(i) == (limb(i + q) \div (2 ^ s)) + (limb(i + q + 1) % (2 ^ s)) * (2 ^ (16 - s))
    IN  <<out(1), out(2), out(3), out(4)>>

\* a + b modulo 2^64
U64Add(a, b) ==
    LET t1 == a[1] + b[1]
        t2 == a[2] + b[2] + (t1 \div Limb)
        t3 == a[3] + b[3] + (t2 \div Limb)
        t4 == a[4] + b[4] + (t3 \div Limb)
    IN  <<t1 % Limb, t2 % Limb, t3 % Limb, t4 % Limb>>

\* the eight bytes of a u64, least significant first
U64Bytes(h) ==
    <<h[1] % 256, h[1] \div 256, h[2] % 256, h[2] \div 256,
      h[3] % 256, h[3] \div 256, h[4] % 256, h[4] \div 256>>

\* sum of the byte products that land on byte k of a product
RECURSIVE MulColumn(_, _, _, _)
MulColumn(A, B, k, i) ==
    IF i > k THEN 0 ELSE A[i] * B[k + 1 - i] + MulColumn(A, B, k, i + 1)

\* the u64 whose bytes in memory are bs (at most 8, little endian)
U64OfBytes(bs) ==
    LET byte(i) == IF i <= Len(bs) THEN bs[i] ELSE 0
    IN  <<byte(1) + 256 * byte(2), byte(3) + 256 * byte(4),
          byte(5) + 256 * byte(6), byte(7) + 256 * byte(8)>>

\* the bytes k, k + 1, ... 8 of a product: column plus carry, byte by byte
RECURSIVE MulCarry(_, _, _, _)
MulCarry(A, B, k, carry) ==
    IF k > 8 THEN <<>>
    ELSE Once(MulColumn(A, B, k, 1) + carry,
              LAMBDA t : <<t % 256>> \o MulCarry(A, B, k + 1, t \div 256))

\* a * b modulo 2^64
U64Mul(a, b) ==
    Once(MulCarry(U64Bytes(a), U64Bytes(b), 1, 0), LAMBDA p : U64OfBytes(p))

\* k ^= k >> 33; k *= 0xff51afd7ed558ccd; k ^= k >> 33;
\* k *= 0xc4ceb9fe1a85ec53; k ^= k >> 33
fmix64(k) ==
    Once(U64Xor(k, U64Shr(k, 33)), LAMBDA k1 :
    Once(U64Mul(k1, <<36045, 60757, 45015, 65361>>), LAMBDA k2 :
    Once(U64Xor(k2, U64Shr(k2, 33)), LAMBDA k3 :
    Once(U64Mul(k3, <<60499, 6789, 47614, 50382>>), LAMBDA k4 :
    U64Xor(k4, U64Shr(k4, 33))))))

\* MurmurHash3_x64_128 of a key shorter than 16 bytes (the body loop has no
\* block, the whole key is the tail): <<h1, h2>>; c1 is 0x87c37b91114253d5
\* and c2 is 0x4cf5ad432745937f
MurmurHash3_x64_128(key, seed) ==
    LET len == Len(key)
        c1 == <<21461, 4418, 31633, 34755>>
        c2 == <<37759, 10053, 44355, 19701>>
        k2 == IF len > 8 THEN U64OfBytes(SubSeq(key, 9, len)) ELSE U64Of(0)
        k1 == U64OfBytes(SubSeq(key, 1, IF len > 8 THEN 8 ELSE len))
        h2a == IF len > 8
               THEN U64Xor(seed, U64Mul(ROTL64(U64Mul(k2, c2), 33), c1))
               ELSE seed
        h1a == IF len > 0
               THEN U64Xor(seed, U64Mul(ROTL64(U64Mul(k1, c1), 31), c2))
               ELSE seed
    IN  Once(U64Xor(h1a, U64Of(len)), LAMBDA h1b :
        Once(U64Xor(h2a, U64Of(len)), LAMBDA h2b :
        Once(U64Add(h1b, h2b), LAMBDA h1c :
        Once(U64Add(h2b, h1c), LAMBDA h2c :
        Once(fmix64(h1c), LAMBDA h1d :
        Once(fmix64(h2c), LAMBDA h2d :
        Once(U64Add(h1d, h2d), LAMBDA h1e : <<h1e, U64Add(h2d, h1e)>>)))))))

\* the seed is 0x9747b28c
hmap_generate_hash(key) == MurmurHash3_x64_128(key, <<45708, 38727, 0, 0>>)

HMAP_INITIAL_CAPACITY == 64
HMAP_GROWTH_MULTIPLIER == 2
\* (size_t)((float)cap * HMAP_HASHTABLE_MULTIPLIER) with the multiplier 1.6f
hmap_hash_cap(cap) == (cap * 16) \div 10
\* sentinels of HmapEntry.data_index, read as signed values (SIZE_MAX and
\* SIZE_MAX - 1); HMAP_EMPTY is also the not-found result
HMAP_EMPTY == -1
HMAP_DELETED == -2
HMAP_ALREADY_EXISTS == -1

\* a <= b on size_t values read as signed: a negative value is above every
\* non-negative one
SizeLe(a, b) ==
    IF (a >= 0) = (b >= 0) THEN a <= b ELSE a >= 0

\* the three int keys the hmap callers use: 1 and 3 hash to slot 63 of a
\* 102-slot directory, 21 to slot 32
HKeys == {KeyBytes(1), KeyBytes(3), KeyBytes(21)}

\* the keys 101, 102, ... of the initial workload
HFillKey(i) == KeyBytes(100 + i)

\* an HmapEntry fresh from memset(new_entries, 0xff, size)
HmapFreshEntry ==
    [data_index |-> HMAP_EMPTY,
     hash |-> <<<<Limb - 1, Limb - 1, Limb - 1, Limb - 1>>,
                <<Limb - 1, Limb - 1, Limb - 1, Limb - 1>>>>]


RECURSIVE hmap_find_empty_slot_loop(_, _, _, _, _)
hmap_find_empty_slot_loop(entries, hash, hash_cap, idx, j) ==
    IF j = 0 THEN NONTERM
    ELSE IF entries[idx].data_index = HMAP_EMPTY \/ entries[idx].data_index = HMAP_DELETED
    THEN idx
    ELSE IF entries[idx].hash = hash THEN HMAP_ALREADY_EXISTS
    ELSE hmap_find_empty_slot_loop(entries, hash, hash_cap, NextIdx(idx, hash_cap), j - 1)

hmap_find_empty_slot(entries, hash, hash_cap) ==
    hmap_find_empty_slot_loop(entries, hash, hash_cap,
                              U64Mod(U64Xor(hash[1], hash[2]), hash_cap), hash_cap)

\* one iteration of the rehash loop of hmap_grow_entries:
\* new_entries[new_index] = d->entries[i]; bad is "oob" after a write to
\* new_entries[HMAP_ALREADY_EXISTS] and "hung" after a probe that did not
\* return, and the loop goes no further
hmap_rehash_entry(acc, old_entries, i, new_hash_cap) ==
    IF acc.bad # "ready" THEN acc
    ELSE IF old_entries[i].data_index = HMAP_EMPTY \/ old_entries[i].data_index = HMAP_DELETED
    THEN acc
    ELSE Once(hmap_find_empty_slot(acc.entries, old_entries[i].hash, new_hash_cap),
              LAMBDA new_index :
                  IF new_index = NONTERM THEN [acc EXCEPT !.bad = "hung"]
                  ELSE IF new_index = HMAP_ALREADY_EXISTS THEN [acc EXCEPT !.bad = "oob"]
                  ELSE [acc EXCEPT !.entries[new_index] = old_entries[i]])

\* for (i = lo; i < hi; i++) in index order, evaluated half by half (the
\* result of the first half is a value before the second half starts)
RECURSIVE hmap_rehash_loop(_, _, _, _, _)
hmap_rehash_loop(acc, old_entries, lo, hi, new_hash_cap) ==
    IF hi <= lo THEN acc
    ELSE IF hi = lo + 1 THEN hmap_rehash_entry(acc, old_entries, lo, new_hash_cap)
    ELSE Once(hmap_rehash_loop(acc, old_entries, lo, (lo + hi) \div 2, new_hash_cap),
              LAMBDA a : hmap_rehash_loop(a, old_entries, (lo + hi) \div 2, hi, new_hash_cap))

\* h.hash_cap is still the old one
hmap_grow_entries(h, new_hash_cap) ==
    LET new_entries == [i \in 0..(new_hash_cap - 1) |-> HmapFreshEntry]
    IN  IF h.len # 0
        THEN Once(h.entries,
                  LAMBDA old_entries :
                      Once(hmap_rehash_loop([entries |-> new_entries, bad |-> "ready"],
                                            old_entries, 0, h.hash_cap, new_hash_cap),
                           LAMBDA r : [hdr |-> [h EXCEPT !.entries = r.entries],
                                       pc |-> r.bad]))
        ELSE [hdr |-> [h EXCEPT !.entries = new_entries], pc |-> "ready"]

hmap__init(initial_capacity) ==
    LET ic == MAX(HMAP_INITIAL_CAPACITY, initial_capacity)
        new_hdr == [len |-> 0, cap |-> ic, hash_cap |-> hmap_hash_cap(ic),
                    returned_idx |-> HMAP_EMPTY,
                    entries |-> <<>>, free_list |-> <<>>,
                    data |-> [i \in 0..(ic - 1) |-> NoValue]]
    IN  hmap_grow_entries(new_hdr, new_hdr.hash_cap)

\* hmap__grow: a NULL handle gets a map of default capacity; a live map
\* doubles cap, rehashes into a directory of 1.6 * cap slots
hmap__grow(dd, h) ==
    IF dd = "NULL" THEN hmap__init(0)
    ELSE LET old_cap == h.cap
             new_cap == old_cap * HMAP_GROWTH_MULTIPLIER
             new_hash_cap == hmap_hash_cap(new_cap)
         IN  Once(hmap_grow_entries([h EXCEPT !.cap = new_cap,
                                              !.data = ReallocData(h.data, old_cap, new_cap)],
                                    new_hash_cap),
                  LAMBDA g : [hdr |-> [g.hdr EXCEPT !.hash_cap = new_hash_cap],
                              pc |-> g.pc])

\* darr_clear: len = 0
darr_clear(a) == <<>>

hmap_count(dd, h) == IF dd = "NULL" THEN 0 ELSE h.len

hmap_cap(dd, h) == IF dd = "NULL" THEN 0 ELSE h.cap

hmap_range(dd, h) == IF dd = "NULL" THEN 0 ELSE h.len + darr_len(h.free_list)

\* hmap__fit(d, n): grows unless n <= hmap_cap(d)
hmap__fit(dd, h, n) ==
    IF SizeLe(n, hmap_cap(dd, h)) THEN [hdr |-> h, pc |-> "ready"]
    ELSE hmap__grow(dd, h)

\* the data slot is taken and len incremented before the probe; ok is the
\* bool the function returns
hmap__insert_entry(h, key) ==
    LET has_free == darr_len(h.free_list) # 0
        returned_idx == IF has_free THEN darr_pop(h.free_list).val ELSE h.len
        h1 == [h EXCEPT !.returned_idx = returned_idx,
                        !.free_list = IF has_free THEN darr_pop(h.free_list).arr
                                      ELSE h.free_list,
                        !.len = h.len + 1]
    IN  Once(hmap_generate_hash(key),
             LAMBDA hash_out :
                 Once(hmap_find_empty_slot(h.entries, hash_out, h.hash_cap),
                      LAMBDA entry_index :
                          IF entry_index = NONTERM
                          THEN [hdr |-> h1, ok |-> FALSE, pc |-> "hung"]
                          ELSE IF entry_index = HMAP_ALREADY_EXISTS
                          THEN [hdr |-> h1, ok |-> FALSE, pc |-> "ready"]
                          ELSE [hdr |-> [h1 EXCEPT !.entries[entry_index] =
                                            [data_index |-> returned_idx,
                                             hash |-> hash_out]],
                                ok |-> TRUE, pc |-> "ready"]))

\* the macro hmap_insert(d, k, v): fit, insert the entry, write the value cell
\* d[returned_idx] and yield returned_idx, or yield HMAP_ALREADY_EXISTS
hmap_insert(dd, h, key, v) ==
    Once(hmap__fit(dd, h, hmap_count(dd, h) + 1),
         LAMBDA f :
             IF f.pc # "ready" THEN [hdr |-> f.hdr, ret |-> HMAP_EMPTY, pc |-> f.pc]
             ELSE Once(hmap__insert_entry(f.hdr, key),
                       LAMBDA r :
                           LET i == r.hdr.returned_idx
                           IN  IF r.pc # "ready"
                               THEN [hdr |-> r.hdr, ret |-> HMAP_EMPTY, pc |-> r.pc]
                               ELSE IF ~r.ok
                               THEN [hdr |-> r.hdr, ret |-> HMAP_ALREADY_EXISTS,
                                     pc |-> "ready"]
                               ELSE IF i \notin DOMAIN r.hdr.data
                               THEN [hdr |-> r.hdr, ret |-> i, pc |-> "oob"]
                               ELSE [hdr |-> [r.hdr EXCEPT !.data[i] = v], ret |-> i,
                                     pc |-> "ready"]))

RECURSIVE hmap_get_entry_index_loop(_, _, _, _, _)
hmap_get_entry_index_loop(entries, hash, hash_cap, idx, j) ==
    IF j = 0 THEN NONTERM
    ELSE IF entries[idx].data_index = HMAP_EMPTY THEN HMAP_EMPTY
    ELSE IF entries[idx].hash = hash THEN idx
    ELSE hmap_get_entry_index_loop(entries, hash, hash_cap, NextIdx(idx, hash_cap), j - 1)

\* the slot of the key, HMAP_EMPTY when the probe meets an EMPTY slot or the
\* handle is NULL
hmap__get_entry_index(dd, h, key) ==
    IF hmap_cap(dd, h) = 0 THEN HMAP_EMPTY
    ELSE Once(hmap_generate_hash(key),
              LAMBDA hash :
                  hmap_get_entry_index_loop(h.entries, hash, h.hash_cap,
                                            U64Mod(U64Xor(hash[1], hash[2]), h.hash_cap),
                                            h.hash_cap))

\* hmap__find_data_idx: on a hit returned_idx is the data_index of the slot
hmap__find_data_idx(dd, h, key) ==
    Once(hmap__get_entry_index(dd, h, key),
         LAMBDA idx :
             IF idx = NONTERM THEN [found |-> FALSE, hdr |-> h, pc |-> "hung"]
             ELSE IF idx = HMAP_EMPTY THEN [found |-> FALSE, hdr |-> h, pc |-> "ready"]
             ELSE [found |-> TRUE,
                   hdr |-> [h EXCEPT !.returned_idx = h.entries[idx].data_index],
                   pc |-> "ready"])

\* hmap_get_idx(d, k): the data_index of the slot the probe returns, NONTERM
\* when the probe does not return
hmap__get_idx(dd, h, key) ==
    Once(hmap__get_entry_index(dd, h, key),
         LAMBDA idx :
             IF idx = NONTERM THEN NONTERM
             ELSE IF idx = HMAP_EMPTY THEN HMAP_EMPTY
             ELSE h.entries[idx].data_index)

\* hmap_delete(d, k)
hmap__delete(dd, h, key) ==
    Once(hmap__get_entry_index(dd, h, key),
         LAMBDA idx :
             IF idx = NONTERM THEN [hdr |-> h, ret |-> HMAP_EMPTY, pc |-> "hung"]
             ELSE IF idx = HMAP_EMPTY THEN [hdr |-> h, ret |-> HMAP_EMPTY, pc |-> "ready"]
             ELSE LET data_index == h.entries[idx].data_index
                  IN  [hdr |-> [h EXCEPT !.entries[idx].data_index = HMAP_DELETED,
                                         !.free_list = darr_push(h.free_list, data_index),
                                         !.len = h.len - 1],
                       ret |-> data_index, pc |-> "ready"])

\* hmap_clear on a live map: memset of the directory, empty free list, len 0
hmap_clear(h) ==
    [h EXCEPT !.entries = [i \in 0..(h.hash_cap - 1) |-> HmapFreshEntry],
              !.free_list = darr_clear(h.free_list),
              !.len = 0]

\* hmap_free(d): 0 for a NULL handle, else the map is released, the handle
\* set to NULL and the result is 1
hmap_free(dd) ==
    IF dd = "NULL" THEN [d |-> "NULL", ret |-> 0] ELSE [d |-> "NULL", ret |-> 1]

\* for (i = 100 + lo; i <= 100 + hi; i++) hmap_insert(d, &i, 1);
\* evaluated half by half (the header after the first half is a value
\* before the second half starts)
RECURSIVE HmapFillRun(_, _, _, _)
HmapFillRun(dd, h, lo, hi) ==
    IF lo > hi THEN h
    ELSE IF lo = hi THEN hmap_insert(dd, h, HFillKey(lo), 1).hdr
    ELSE Once(HmapFillRun(dd, h, lo, (lo + hi) \div 2),
              LAMBDA h2 : HmapFillRun("LIVE", h2, (lo + hi) \div 2 + 1, hi))

HmapFilledHdr == HmapFillRun("NULL", NullHdr, 1, HFillCount)

HNoKeyOp == [k \in HKeys |-> "none"]

\* the initial workload followed by
\* k = 1; hmap_insert(d, &k, 1); k = 3; hmap_insert(d, &k, 1);
\* k = 1; hmap_delete(d, &k);
\* key 3 is stored behind the tombstone of key 1, on its own probe path
HmapTombstoneHdr ==
    hmap__delete("LIVE",
                 hmap_insert("LIVE",
                             hmap_insert("LIVE", HmapFilledHdr, KeyBytes(1), 1).hdr,
                             KeyBytes(3), 1).hdr,
                 KeyBytes(1)).hdr

HTombstoneKeyOp ==
    [k \in HKeys |-> IF k = KeyBytes(1) THEN "delete"
                     ELSE IF k = KeyBytes(3) THEN "insert" ELSE "none"]

\* the handle before any call, or the map left by an initial workload
HmapInit ==
    /\ dmap_error_handler = "default"
    /\ hook = FALSE
    /\ \/ d = "NULL" /\ hdr = NullHdr /\ lastKeyOp = HNoKeyOp
       \/ d = "LIVE" /\ hdr = HmapFilledHdr /\ lastKeyOp = HNoKeyOp
       \/ d = "LIVE" /\ hdr = HmapTombstoneHdr /\ lastKeyOp = HTombstoneKeyOp
    /\ pc = "ready"
    /\ op = NoOp
    /\ reinsert = NoReinsert
    /\ nops = 0

HmapCanStep == pc = "ready" /\ nops < MaxHmapOps

\* hmap_init(d, 0, alloc_type): hmap__init calls hmap_error_handler for a
\* handle that already refers to a map (the default handler exits)
HmapInitCall ==
    /\ HmapCanStep
    /\ hook' = (d # "NULL")
    /\ \E r \in {hmap__init(0)} :
           /\ pc' = IF d # "NULL" THEN "exited" ELSE r.pc
           /\ hdr' = IF d # "NULL" THEN hdr ELSE r.hdr
    /\ d' = "LIVE"
    /\ op' = [name |-> "init", key |-> NoKey, val |-> NoValue, ret |-> HMAP_EMPTY]
    /\ nops' = nops + 1
    /\ UNCHANGED <<lastKeyOp, reinsert, dmap_error_handler>>

\* hmap_insert(d, &k, v)
HmapInsert(k, v) ==
    /\ HmapCanStep
    /\ \E r \in {hmap_insert(d, hdr, k, v)} :
           /\ hdr' = r.hdr
           /\ pc' = r.pc
           /\ op' = [name |-> "insert", key |-> k, val |-> v, ret |-> r.ret]
           /\ lastKeyOp' = IF r.pc = "ready" /\ r.ret # HMAP_ALREADY_EXISTS
                           THEN [lastKeyOp EXCEPT ![k] = "insert"]
                           ELSE lastKeyOp
    /\ d' = "LIVE"
    /\ hook' = FALSE
    /\ nops' = nops + 1
    /\ UNCHANGED <<reinsert, dmap_error_handler>>

\* hmap_get(d, &k): ret is the index of the cell pointed to, HMAP_EMPTY for
\* NULL
HmapGet(k) ==
    /\ HmapCanStep
    /\ \E r \in {hmap__find_data_idx(d, hdr, k)} :
           /\ hdr' = r.hdr
           /\ pc' = r.pc
           /\ op' = [name |-> "get", key |-> k, val |-> NoValue,
                     ret |-> IF r.found THEN r.hdr.returned_idx ELSE HMAP_EMPTY]
    /\ hook' = FALSE
    /\ nops' = nops + 1
    /\ UNCHANGED <<d, lastKeyOp, reinsert, dmap_error_handler>>

\* hmap_get_idx(d, &k)
HmapGetIdx(k) ==
    /\ HmapCanStep
    /\ \E r \in {hmap__get_idx(d, hdr, k)} :
           /\ pc' = IF r = NONTERM THEN "hung" ELSE "ready"
           /\ op' = [name |-> "get_idx", key |-> k, val |-> NoValue, ret |-> r]
    /\ hook' = FALSE
    /\ nops' = nops + 1
    /\ UNCHANGED <<d, hdr, lastKeyOp, reinsert, dmap_error_handler>>

\* hmap_delete(d, &k)
HmapDelete(k) ==
    /\ HmapCanStep
    /\ \E r \in {hmap__delete(d, hdr, k)} :
           /\ hdr' = r.hdr
           /\ pc' = r.pc
           /\ op' = [name |-> "delete", key |-> k, val |-> NoValue, ret |-> r.ret]
           /\ lastKeyOp' = IF r.pc = "ready" /\ r.ret # HMAP_EMPTY
                           THEN [lastKeyOp EXCEPT ![k] = "delete"]
                           ELSE lastKeyOp
    /\ hook' = FALSE
    /\ nops' = nops + 1
    /\ UNCHANGED <<d, reinsert, dmap_error_handler>>

\* hmap_clear(d) on a live map
HmapClear ==
    /\ HmapCanStep
    /\ d = "LIVE"
    /\ hdr' = hmap_clear(hdr)
    /\ op' = [name |-> "clear", key |-> NoKey, val |-> NoValue, ret |-> HMAP_EMPTY]
    /\ lastKeyOp' = HNoKeyOp
    /\ hook' = FALSE
    /\ nops' = nops + 1
    /\ UNCHANGED <<d, pc, reinsert, dmap_error_handler>>

\* hmap_free(d)
HmapFree ==
    /\ HmapCanStep
    /\ d' = hmap_free(d).d
    /\ hdr' = NullHdr
    /\ op' = [name |-> "free", key |-> NoKey, val |-> NoValue, ret |-> hmap_free(d).ret]
    /\ lastKeyOp' = HNoKeyOp
    /\ hook' = FALSE
    /\ nops' = nops + 1
    /\ UNCHANGED <<pc, reinsert, dmap_error_handler>>

HmapNext ==
    \/ HmapInitCall
    \/ \E k \in HKeys, v \in Values : HmapInsert(k, v)
    \/ \E k \in HKeys : HmapGet(k)
    \/ \E k \in HKeys : HmapGetIdx(k)
    \/ \E k \in HKeys : HmapDelete(k)
    \/ HmapClear
    \/ HmapFree

HmapSpec == HmapInit /\ [][HmapNext]_vars

TypeOK ==
    /\ d \in {"NULL", "LIVE"}
    /\ pc \in {"ready", "hung", "oob", "exited"}
    /\ dmap_error_handler \in {"default", "custom"}
    /\ hook \in BOOLEAN
    /\ nops \in 0..MAX(MaxOps, MAX(MaxKeyOps, MaxHmapOps))
    /\ hdr.len \in Nat
    /\ reinsert.stage \in 0..3

(***************************************************************************)
(* Properties                                                              *)
(***************************************************************************)
\* directory slots that are neither EMPTY nor DELETED
LiveSlots(h) == {i \in DOMAIN h.entries : ~entry_is_empty_or_deleted(h.entries, i)}

\* the step is the operation name on key k
StepOn(name, k) == op'.name = name /\ op'.key = k

\* C1 (Stability): for every key K inserted and not deleted since, no
\* operation on another key (insert, delete, lookup, with or without a
\* growth) changes the data index that get_idx(K) returns.
C1_Stability ==
    [][\A k \in Keys :
          (/\ lastKeyOp[k] = "insert"
           /\ pc' = "ready"
           /\ op'.name \in {"insert", "delete", "get", "getp"}
           /\ op'.key # k)
          => dmap_get(d', hdr', k) = dmap_get(d, hdr, k)]_vars

\* C2 (Round-trip): in the state an insert(K, V) returns in, get_idx(K) is
\* the index the insert returned, getp(K) points to that cell, and the cell
\* holds V.
C2_RoundTrip ==
    (op.name = "insert" /\ pc = "ready")
    => /\ dmap_get(d, hdr, op.key) = op.ret
       /\ dmap__find_data_idx(d, hdr, op.key, dmap_error_handler).found
       /\ dmap__find_data_idx(d, hdr, op.key, dmap_error_handler).hdr.returned_idx = op.ret
       /\ op.ret \in DOMAIN hdr.data
       /\ hdr.data[op.ret] = op.val

\* an insert of the second value has returned in a map that holds other live
\* keys and at least one tombstone
C2_Witness ==
    /\ op.name = "insert" /\ pc = "ready" /\ op.val = 2
    /\ Cardinality(LiveSlots(hdr)) > 1
    /\ \E i \in DOMAIN hdr.entries : entry_is_deleted(hdr.entries, i)

\* C3 (Idempotent overwrite): an insert(K, V2) of a key that is present
\* leaves count unchanged, and a lookup of K then yields V2.
C3_IdempotentOverwrite ==
    [][\A k \in Keys :
          (StepOn("insert", k) /\ pc' = "ready" /\ dmap_get(d, hdr, k) >= 0)
          => /\ dmap_count(d', hdr') = dmap_count(d, hdr)
             /\ hdr'.data[dmap_get(d', hdr', k)] = op'.val]_vars

\* C4 (Overwrite frame): an insert of a key that is present returns the data
\* index the key had, leaves the free list unchanged and consumes no
\* unused data index (range is unchanged).
C4_OverwriteKeepsIndex ==
    [][\A k \in Keys :
          (StepOn("insert", k) /\ pc' = "ready" /\ dmap_get(d, hdr, k) >= 0)
          => /\ op'.ret = dmap_get(d, hdr, k)
             /\ hdr'.free_list = hdr.free_list
             /\ dmap_range(d', hdr') = dmap_range(d, hdr)]_vars

\* C5 (No phantom keys): a key whose most recent operation was a successful
\* delete is not found: get_idx returns no data index for it.
C5_NoPhantomKeys ==
    \A k \in Keys :
        (lastKeyOp[k] = "delete" /\ pc = "ready") => ~(dmap_get(d, hdr, k) >= 0)

\* C6 (count): len is the number of directory slots that are neither EMPTY
\* nor DELETED.
C6_CountIsLiveEntries ==
    d = "LIVE" => dmap_count(d, hdr) = Cardinality(LiveSlots(hdr))

C8_RangeBound ==
    (/\ op.name \in {"insert", "get", "getp", "delete"}
     /\ op.ret # DMAP_EMPTY
     /\ pc = "ready")
    => (0 <= op.ret /\ op.ret < dmap_range(d, hdr))

\* a delete has returned the highest data index in use while the free list
\* held another index
C8_Witness ==
    /\ op.name = "delete" /\ op.ret >= 0
    /\ op.ret = dmap_range(d, hdr) - 1
    /\ darr_len(hdr.free_list) >= 2

\* C9 (Lookup termination): the directory of a live map always has an EMPTY
\* slot, so the lookup probe of every key ends within hash_cap steps.
C9_EmptySlotExists ==
    d = "LIVE"
    => /\ \E i \in DOMAIN hdr.entries : entry_is_empty(hdr.entries, i)
       /\ \A k \in Keys : dmap__get_entry_index(d, hdr, k) # NONTERM

C11_InsertKeySize ==
    [][\A k \in MixedKeys :
          (op'.name = "insert" /\ op'.key = k /\ d = "LIVE")
          => /\ (hdr.key_type = "DMAP_U32" /\ hdr.key_size # 0)
                => (hook' <=> Len(k) # hdr.key_size)
             /\ hdr.key_type = "DMAP_STR"
                => /\ ~hook'
                   /\ pc' = "ready"
                   /\ dmap_get(d', hdr', k) = op'.ret]_vars

\* a map first fed an 8-byte key was offered a 4-byte key and the handler
\* was called
C11_Witness ==
    /\ op.name = "insert" /\ Len(op.key) = 4
    /\ hdr.key_type = "DMAP_U32" /\ hdr.key_size = 8
    /\ hook

\* C12 (Key-size discipline on lookup): get_idx on a live map whose key_size
\* is a fixed length calls the error handler when the length of the key
\* differs from key_size.
C12_GetKeySize ==
    [][\A k \in MixedKeys :
          (/\ StepOn("get", k)
           /\ d = "LIVE"
           /\ hdr.key_size # 0 /\ hdr.key_size # KEY_SIZE_STR
           /\ Len(k) # hdr.key_size)
          => hook']_vars

\* C13 (No partial state on a handled error): when an insert has called the
\* error handler for the key size and the handler has returned, len, the
\* free list and every directory slot are as before the call.
C13_RejectedInsertFrame ==
    [][(op'.name = "insert" /\ hook' /\ pc' # "exited")
       => /\ hdr'.len = hdr.len
          /\ hdr'.free_list = hdr.free_list
          /\ hdr'.entries = hdr.entries]_vars

\* C14 (Delete of a present key): a delete of a key K that get_idx finds
\* returns the data index get_idx(K) gave just before, decrements len by
\* one, appends that index to the free list and leaves range() unchanged.
C14_DeletePresent ==
    [][\A k \in Keys :
          (StepOn("delete", k) /\ pc' = "ready" /\ dmap_get(d, hdr, k) >= 0)
          => /\ op'.ret = dmap_get(d, hdr, k)
             /\ hdr'.len = hdr.len - 1
             /\ hdr'.free_list = Append(hdr.free_list, op'.ret)
             /\ dmap_range(d', hdr') = dmap_range(d, hdr)]_vars

\* a delete has returned an index, pushed onto a free list that already
\* held one, in a map that still has live keys
C14_Witness ==
    /\ op.name = "delete" /\ op.ret >= 0
    /\ darr_len(hdr.free_list) >= 2
    /\ hdr.free_list[darr_len(hdr.free_list)] = op.ret
    /\ hdr.len >= 1

\* C15 (Delete of an absent key): a delete of a key that was never inserted
\* or whose last operation was a successful delete returns not-found and
\* leaves len, the free list and every directory slot unchanged.
C15_DeleteAbsent ==
    [][\A k \in Keys :
          (StepOn("delete", k) /\ pc' = "ready" /\ lastKeyOp[k] # "insert")
          => /\ op'.ret = DMAP_EMPTY
             /\ hdr'.len = hdr.len
             /\ hdr'.free_list = hdr.free_list
             /\ hdr'.entries = hdr.entries]_vars

\* C16 (Delete removes only its own key): a delete of a present key K
\* leaves get_idx(K2) and the value stored for K2 unchanged for every other
\* present key K2.
C16_DeleteOnlyOwnKey ==
    [][\A k, k2 \in Keys :
          (/\ k # k2
           /\ StepOn("delete", k) /\ pc' = "ready"
           /\ dmap_get(d, hdr, k) >= 0
           /\ dmap_get(d, hdr, k2) >= 0)
          => /\ dmap_get(d', hdr', k2) = dmap_get(d, hdr, k2)
             /\ hdr'.data[dmap_get(d, hdr, k2)] = hdr.data[dmap_get(d, hdr, k2)]]_vars

\* key 26 was deleted while key 90, which hashes to the same slot and sits
\* behind it in probe order, is present
C16_Witness ==
    /\ op.name = "delete" /\ op.key = KA /\ op.ret >= 0
    /\ dmap_get(d, hdr, KB) >= 0
    /\ \E i \in DOMAIN hdr.entries :
          /\ entry_is_deleted(hdr.entries, i)
          /\ hdr.entries[i].key = KA

\* C17 (Key identity is byte equality): a key under whose bytes nothing was
\* ever inserted resolves to no entry: get_idx does not find it, whatever
\* its hash.
C17_KeyIdentity ==
    \A k \in MixedKeys :
        (d = "LIVE" /\ pc = "ready" /\ lastKeyOp[k] = "none")
        => dmap_get(d, hdr, k) = DMAP_EMPTY

\* C18 as stated (Lookups do not mutate the map): get_idx and getp leave
\* every field of the header, the directory, the free list and the value
\* array unchanged.
C18_LookupsDoNotMutate ==
    [][op'.name \in {"get", "getp"} => (d' = d /\ hdr' = hdr)]_vars

\* C18 amended: get_idx leaves the whole header unchanged; getp leaves every
\* field but returned_idx unchanged, and when it finds the key returned_idx
\* is the data index of the key.
C18_LookupsKeepMap ==
    [][/\ op'.name = "get" => (d' = d /\ hdr' = hdr)
       /\ op'.name = "getp"
          => /\ d' = d
             /\ [hdr' EXCEPT !.returned_idx = hdr.returned_idx] = hdr
             /\ op'.ret >= 0 => hdr'.returned_idx = dmap_get(d, hdr, op'.key)
             /\ op'.ret < 0 => hdr' = hdr]_vars

\* getp has found a key whose data index is not the one of the last insert
C18_Witness ==
    /\ op.name = "getp" /\ op.ret >= 0
    /\ hdr.returned_idx = op.ret
    /\ hdr.returned_idx # hdr.len - 1
    /\ hdr.len > 1

\* C19 (Delete leaves the value array untouched): a delete changes no value
\* cell, and a value cell of a live map keeps its value over every step
\* but an insert that returns the index of the cell.
C19_DeleteKeepsValues ==
    [][/\ op'.name = "delete" => hdr'.data = hdr.data
       /\ (d = "LIVE" /\ d' = "LIVE")
          => \A i \in DOMAIN hdr.data :
                ~(op'.name = "insert" /\ op'.ret = i)
                => (i \in DOMAIN hdr'.data /\ hdr'.data[i] = hdr.data[i])]_vars

\* after an insert that was assigned another index, the free list holds the
\* index of a deleted key whose cell still has the value 2 written by its
\* insert
C19_Witness ==
    /\ op.name = "insert" /\ op.ret >= 0
    /\ \E j \in 1..darr_len(hdr.free_list) :
          /\ hdr.free_list[j] # op.ret
          /\ hdr.data[hdr.free_list[j]] = 2

\* C20 (Null handle): with a NULL handle count and range are 0; dmap_get
\* and dmap_delete return -1, dmap_getp returns NULL, dmap_free returns 0,
\* and the handle stays NULL with no map created and no error handler call;
\* dmap_free of a live map returns 1 and sets the handle to NULL.
C20_NullHandle ==
    /\ [](d = "NULL" => (dmap_count(d, hdr) = 0 /\ dmap_range(d, hdr) = 0))
    /\ [][/\ (d = "NULL" /\ op'.name \in {"get", "getp", "delete", "free"})
             => /\ d' = "NULL"
                /\ hdr' = hdr
                /\ op'.ret = IF op'.name = "free" THEN 0 ELSE DMAP_EMPTY
                /\ pc' = "ready"
                /\ ~hook'
          /\ (d = "LIVE" /\ op'.name = "free")
             => (d' = "NULL" /\ op'.ret = 1)]_vars

\* dmap_free was called on a NULL handle after another operation
C20_Witness ==
    /\ d = "NULL" /\ op.name = "free" /\ op.ret = 0
    /\ nops >= 2

\* C21 (Double init is an error): dmap_init or dmap_kstr_init on a handle that
\* already refers to a map calls the error handler; on a NULL handle it does
\* not.
C21_DoubleInit ==
    [][op'.name \in {"init", "kstr_init"} => (hook' <=> d = "LIVE")]_vars

\* an init on a live handle has called an installed handler, which returned:
\* the handle refers to a new empty map
C21_Witness ==
    /\ op.name \in {"init", "kstr_init"} /\ hook
    /\ pc = "ready" /\ d = "LIVE" /\ hdr.len = 0

\* C22 (hmap lookup after delete): while the last successful operation on a
\* key K is a delete, hmap_get_idx(K) is HMAP_EMPTY and hmap_get(K) is NULL.
C22_HmapLookupAfterDelete ==
    \A k \in HKeys :
        (d = "LIVE" /\ pc = "ready" /\ lastKeyOp[k] = "delete")
        => /\ hmap__get_idx(d, hdr, k) = HMAP_EMPTY
           /\ ~hmap__find_data_idx(d, hdr, k).found

\* C23 (hmap insert of an existing key): hmap_insert of a key that
\* hmap_get_idx finds returns HMAP_ALREADY_EXISTS and leaves len, the free
\* list, the value of the key and every directory entry as they were.
C23_HmapInsertExisting ==
    [][\A k \in HKeys :
          (/\ StepOn("insert", k) /\ pc' = "ready"
           /\ hmap__get_idx(d, hdr, k) >= 0)
          => /\ op'.ret = HMAP_ALREADY_EXISTS
             /\ hdr'.len = hdr.len
             /\ hdr'.free_list = hdr.free_list
             /\ hdr'.data[hmap__get_idx(d, hdr, k)] = hdr.data[hmap__get_idx(d, hdr, k)]
             /\ hdr'.entries = hdr.entries]_vars

\* C24 (hmap delete of an absent key): hmap_delete of a key that was never
\* inserted, or whose last successful operation is a delete, returns
\* HMAP_EMPTY and leaves len and the free list unchanged; len is never
\* below zero and the free list holds data indices of the value array only.
C24_HmapDeleteAbsent ==
    [][\A k \in HKeys :
          (StepOn("delete", k) /\ pc' = "ready" /\ lastKeyOp[k] # "insert")
          => /\ op'.ret = HMAP_EMPTY
             /\ hdr'.len = hdr.len
             /\ hdr'.free_list = hdr.free_list
             /\ hdr'.len >= 0
             /\ \A j \in 1..darr_len(hdr'.free_list) :
                    hdr'.free_list[j] \in 0..(hdr'.cap - 1)]_vars

\* two directory slots store the same key (hash and key bytes or rehash)
SameStoredKey(entries, i, j) ==
    [entries[i] EXCEPT !.data_idx = 0] = [entries[j] EXCEPT !.data_idx = 0]

\* C25 (At most one live slot per key): no two slots that are neither EMPTY
\* nor DELETED hold the same key, also after an insert of a present key
\* whose probe passes a DELETED slot before it reaches the key's slot.
C25_OneLiveSlotPerKey ==
    d = "LIVE"
    => \A i, j \in LiveSlots(hdr) : i # j => ~SameStoredKey(hdr.entries, i, j)

\* the number of probe steps from the first slot of key to slot
ProbeDistance(h, key, slot) ==
    (slot + h.hash_cap - U64Mod(Hash(key), h.hash_cap)) % h.hash_cap

\* C26 (Lookup skips tombstones): when a present key A whose slot lies on
\* the probe path of a present key B ahead of B's slot is deleted, A's slot
\* is DELETED afterwards and get_idx(B) still returns B's data index.
C26_LookupSkipsTombstones ==
    [][\A a, b \in Keys :
          (/\ a # b
           /\ StepOn("delete", a) /\ pc' = "ready"
           /\ dmap__get_entry_index(d, hdr, a) >= 0
           /\ dmap__get_entry_index(d, hdr, b) >= 0
           /\ ProbeDistance(hdr, b, dmap__get_entry_index(d, hdr, a))
                 < ProbeDistance(hdr, b, dmap__get_entry_index(d, hdr, b)))
          => /\ entry_is_deleted(hdr'.entries, dmap__get_entry_index(d, hdr, a))
             /\ dmap_get(d', hdr', b) = dmap_get(d, hdr, b)
             /\ dmap_get(d', hdr', b) >= 0]_vars

\* key 26 was deleted, its slot is now DELETED and is the first slot of the
\* probe of key 90, which is found behind it
C26_Witness ==
    /\ op.name = "delete" /\ op.key = KA /\ op.ret >= 0 /\ pc = "ready"
    /\ entry_is_deleted(hdr.entries, U64Mod(Hash(KB), hdr.hash_cap))
    /\ dmap__get_entry_index(d, hdr, KB) >= 0
    /\ ProbeDistance(hdr, KB, dmap__get_entry_index(d, hdr, KB)) > 0

\* the elements of a darr
DarrElems(a) == {a[i] : i \in 1..darr_len(a)}

\* C27 (Directory and free list are disjoint): no data index of a live
\* directory slot is in the free list, and no index is in the free list
\* twice.
C27_DirectoryFreeListDisjoint ==
    d = "LIVE"
    => /\ \A i \in LiveSlots(hdr) :
              get_data_index(hdr.entries, i) \notin DarrElems(hdr.free_list)
       /\ Cardinality(DarrElems(hdr.free_list)) = darr_len(hdr.free_list)

\* an insert has returned while the free list still holds an index: the
\* slot of the inserted key is live and free indices exist beside it
C27_Witness ==
    /\ op.name = "insert" /\ pc = "ready" /\ d = "LIVE"
    /\ darr_len(hdr.free_list) >= 1
    /\ \E i \in LiveSlots(hdr) : get_data_index(hdr.entries, i) = op.ret

\* C28 (No aliasing of value cells): two live slots that hold different
\* keys have different data indices, and an insert(K, V) leaves the value
\* read for every other present key as it was.
C28_NoAliasing ==
    /\ [](d = "LIVE"
           => \A i, j \in LiveSlots(hdr) :
                 (i # j /\ ~SameStoredKey(hdr.entries, i, j))
                 => get_data_index(hdr.entries, i) # get_data_index(hdr.entries, j))
    /\ [][\A k, k2 \in Keys :
             (/\ k # k2
              /\ StepOn("insert", k) /\ pc' = "ready"
              /\ dmap_get(d, hdr, k2) >= 0)
             => /\ dmap_get(d', hdr', k2) >= 0
                /\ hdr'.data[dmap_get(d', hdr', k2)] = hdr.data[dmap_get(d, hdr, k2)]]_vars

\* C29 (Live data indices are in bounds): the data index of every live slot
\* is neither sentinel and lies in 0..cap-1, and no insert writes its value
\* outside the value array.
C29_LiveIndicesInBounds ==
    /\ pc # "oob"
    /\ d = "LIVE"
       => \A i \in LiveSlots(hdr) :
             /\ get_data_index(hdr.entries, i) # DMAP_EMPTY
             /\ get_data_index(hdr.entries, i) # DMAP_DELETED
             /\ 0 <= get_data_index(hdr.entries, i)
             /\ get_data_index(hdr.entries, i) < dmap_cap(d, hdr)

\* an insert has returned the last index of the value array
C29_Witness ==
    /\ op.name = "insert" /\ pc = "ready"
    /\ op.ret = dmap_cap(d, hdr) - 1
    /\ \E i \in LiveSlots(hdr) : get_data_index(hdr.entries, i) = op.ret

\* C30 (Iteration bound fits the value array): len + |free list| <= cap.
C30_RangeFitsCap ==
    dmap_range(d, hdr) <= dmap_cap(d, hdr)

\* the value array is full: every index is live or in the free list, and
\* the free list is not empty
C30_Witness ==
    /\ d = "LIVE" /\ pc = "ready"
    /\ darr_len(hdr.free_list) >= 1
    /\ dmap_range(d, hdr) = dmap_cap(d, hdr)

\* the entries (hash, key, data index) of the live slots of a directory
LiveEntries(h) == {h.entries[i] : i \in LiveSlots(h)}

\* the lookup probe of dmap__get_entry_index for the key stored in entry e
ProbeStored(h, e) ==
    get_entry_index_loop(h.entries, e.key, e.hash, h.hash_cap, h.key_type,
                         U64Mod(e.hash, h.hash_cap), h.hash_cap)

\* g is the header that a growth makes of h
GrowthPreserves(h, g) ==
    /\ \A i \in DOMAIN g.entries : ~entry_is_deleted(g.entries, i)
    /\ LiveEntries(g) = LiveEntries(h)
    /\ Cardinality(LiveSlots(g)) = Cardinality(LiveSlots(h))
    /\ \A i \in LiveSlots(h) :
          /\ ProbeStored(g, h.entries[i]) >= 0
          /\ g.entries[ProbeStored(g, h.entries[i])].key = h.entries[i].key
          /\ g.entries[ProbeStored(g, h.entries[i])].hash = h.entries[i].hash
    /\ g.len = h.len
    /\ g.free_list = h.free_list

\* C31 (Growth preserves the mapping and drops tombstones): the directory
\* right after a growth, before the insert that caused it stores its entry,
\* has no DELETED slot, its live slots hold exactly the (key, data index)
\* pairs of the old directory, every one of these keys is found by the
\* lookup probe, and len and the free list are as before.
C31_GrowthPreservesMapping ==
    [][(/\ op'.name = "insert"
        /\ d = "LIVE"
        /\ dmap_count(d, hdr) + 1 > dmap_cap(d, hdr))
       => \A g \in {dmap__fit(d, hdr, dmap_count(d, hdr) + 1)} :
             /\ hdr'.hash_cap = g.hash_cap
             /\ GrowthPreserves(hdr, g)]_vars

\* key 21 of the filled map was deleted, only key 26 (stored in the first
\* slot of its probe) was inserted afterwards, and the last of these inserts
\* took the fresh index 16 = cap: it grew a directory that held the
\* tombstone of key 21
C31_Witness ==
    /\ op.name = "insert" /\ op.key = KA /\ pc = "ready"
    /\ op.ret = DMAP_INITIAL_CAPACITY
    /\ hdr.cap = DMAP_INITIAL_CAPACITY * DMAP_GROWTH_MULTIPLIER
    /\ lastKeyOp[KC] = "delete" /\ lastKeyOp[KB] = "none"
    /\ dmap_get(d, hdr, KC) = DMAP_EMPTY
    /\ \A i \in DOMAIN hdr.entries : ~entry_is_deleted(hdr.entries, i)

IsPowerOfTwo(n) == \E e \in 0..30 : n = 2 ^ e

\* C33 (hash_cap is a power of two): the directory of every live map, dmap
\* or hmap, after init with any initial capacity and after any number of
\* growths, has a power of two as its number of slots.
C33_HashCapPowerOfTwo ==
    d = "LIVE" => IsPowerOfTwo(hdr.hash_cap)

\* C34 (Free-list recycling is LIFO and preferred over fresh indices): a
\* delete that returns a data index puts it on top of the free list; an
\* insert of an absent key returns the top of the free list and removes it
\* when the free list is not empty, and returns len, leaving the free list
\* empty, only when it is.  Hence indices freed as i1, ..., in come back as
\* in, ..., i1.
C34_FreeListLifo ==
    [][\A k \in Keys :
          /\ (StepOn("delete", k) /\ pc' = "ready" /\ op'.ret >= 0)
             => hdr'.free_list = darr_push(hdr.free_list, op'.ret)
          /\ (/\ StepOn("insert", k) /\ pc' = "ready"
              /\ dmap_get(d, hdr, k) = DMAP_EMPTY)
             => IF darr_len(hdr.free_list) # 0
                THEN /\ op'.ret = hdr.free_list[darr_len(hdr.free_list)]
                     /\ hdr'.free_list
                           = SubSeq(hdr.free_list, 1, darr_len(hdr.free_list) - 1)
                ELSE /\ op'.ret = dmap_count(d, hdr)
                     /\ hdr'.free_list = <<>>]_vars

\* keys 21 and 26 of the filled map were deleted, then the absent key 90 was
\* inserted: it got the index freed last, the one freed first is still in
\* the free list
C34_Witness ==
    /\ nops = 3 /\ pc = "ready"
    /\ op.name = "insert" /\ op.key = KB
    /\ lastKeyOp[KA] = "delete" /\ lastKeyOp[KC] = "delete"
    /\ darr_len(hdr.free_list) = 1
    /\ op.ret # hdr.free_list[1]
    /\ op.ret # hdr.len - 1

\* the state of directory slot i
SlotState(entries, i) ==
    IF entry_is_empty(entries, i) THEN "EMPTY"
    ELSE IF entry_is_deleted(entries, i) THEN "DELETED"
    ELSE "OCCUPIED"

\* C35 (Slot state machine): an operation on a map that does not rehash
\* leaves a slot as it is or takes it EMPTY -> OCCUPIED (insert),
\* OCCUPIED -> OCCUPIED with the same key and the same data index
\* (overwrite), OCCUPIED -> DELETED (delete) or DELETED -> OCCUPIED (insert);
\* it never takes a DELETED or OCCUPIED slot to EMPTY.
C35_SlotStateMachine ==
    [][(/\ d = "LIVE" /\ d' = "LIVE" /\ pc' = "ready"
        /\ op'.name \notin {"init", "kstr_init", "free"}
        /\ hdr'.hash_cap = hdr.hash_cap)
       => \A i \in DOMAIN hdr.entries :
             \/ hdr'.entries[i] = hdr.entries[i]
             \/ /\ SlotState(hdr.entries, i) = "EMPTY"
                /\ SlotState(hdr'.entries, i) = "OCCUPIED"
                /\ op'.name = "insert"
             \/ /\ SlotState(hdr.entries, i) = "OCCUPIED"
                /\ SlotState(hdr'.entries, i) = "OCCUPIED"
                /\ op'.name = "insert"
                /\ SameStoredKey(hdr'.entries, i, i)
                /\ [hdr'.entries[i] EXCEPT !.data_idx = 0]
                      = [hdr.entries[i] EXCEPT !.data_idx = 0]
                /\ get_data_index(hdr'.entries, i) = get_data_index(hdr.entries, i)
             \/ /\ SlotState(hdr.entries, i) = "OCCUPIED"
                /\ SlotState(hdr'.entries, i) = "DELETED"
                /\ op'.name = "delete"
             \/ /\ SlotState(hdr.entries, i) = "DELETED"
                /\ SlotState(hdr'.entries, i) = "OCCUPIED"
                /\ op'.name = "insert"]_vars

\* C36 (hmap growth installs every live entry inside the new directory):
\* when an hmap_insert grows the map, hmap_find_empty_slot returns a slot of
\* the new directory for every live entry of the old one, never
\* HMAP_ALREADY_EXISTS, and every live entry is in the new directory.
C36_HmapGrowthInstallsEntries ==
    [][(/\ op'.name = "insert"
        /\ d = "LIVE"
        /\ ~SizeLe(hmap_count(d, hdr) + 1, hmap_cap(d, hdr)))
       => \A g \in {hmap__grow(d, hdr)} :
             /\ g.pc = "ready"
             /\ \A i \in DOMAIN hdr.entries :
                   (hdr.entries[i].data_index # HMAP_EMPTY
                    /\ hdr.entries[i].data_index # HMAP_DELETED)
                   => \E j \in DOMAIN g.hdr.entries :
                         g.hdr.entries[j] = hdr.entries[i]]_vars

\* C37 (dmap_clear resets the map without releasing memory): after a
\* dmap_clear count and range are 0, every directory slot is EMPTY, get_idx of
\* every key returns not-found, cap and hash_cap are unchanged, and the insert
\* that follows the clear returns data index 0.
C37_ClearResets ==
    /\ [][(op'.name = "clear")
          => /\ dmap_count(d', hdr') = 0
             /\ dmap_range(d', hdr') = 0
             /\ \A i \in DOMAIN hdr'.entries : hdr'.entries[i].data_idx = DMAP_EMPTY
             /\ \A k \in Keys : dmap_get(d', hdr', k) = DMAP_EMPTY
             /\ hdr'.cap = hdr.cap
             /\ hdr'.hash_cap = hdr.hash_cap
             /\ DOMAIN hdr'.entries = DOMAIN hdr.entries]_vars
    /\ [][(op.name = "clear" /\ op'.name = "insert")
          => /\ op'.ret = 0
             /\ dmap_count(d', hdr') = 1
             /\ dmap_get(d', hdr', op'.key) = 0]_vars

\* a map that held several entries was cleared and the insert that followed
\* returned data index 0; the value cells of the old entries are still there
C37_Witness ==
    /\ nops = 2
    /\ pc = "ready"
    /\ op.name = "insert"
    /\ op.ret = 0
    /\ hdr.len = 1
    /\ dmap_range(d, hdr) = 1
    /\ hdr.data[1] # NoValue
    /\ dmap_get(d, hdr, op.key) = 0

\* C38 (small keys are identified by their own bytes only): in a map with
\* 1-byte or 2-byte keys, a dmap_get of key K directly after dmap_insert(K, V)
\* returns the index of that insert, whatever memory follows the key bytes
\* at the key address in either call.
C38_SmallKeyOwnBytes ==
    [][(/\ op.name = "insert"
        /\ pc = "ready"
        /\ op'.name = "get"
        /\ Len(op.key) \in {1, 2}
        /\ op'.key = op.key)
       => op'.ret = op.ret]_vars

====
